---- MODULE Spec2Model ----
(***************************************************************************)
(* A model of ndlib/mellon-blueprints, deploy/cdk/lib/maintain-metadata:   *)
(* the API-key rotation Lambda (inline Python) and the AppSync resolver    *)
(* mapping templates (VTL) of MaintainMetadataStack, second definition;    *)
(* and of deploy/cdk/lib/elasticsearch: the deployment pipeline.           *)
(*                                                                         *)
(* Values.  A VTL / Python string is a sequence of one-character strings.  *)
(* null / None is the sequence Null, longer than any string, list or map   *)
(* of the model, so that it differs from each of them.  Booleans of the    *)
(* GraphQL arguments are the tokens VTrue and VFalse, a timestamp t is     *)
(* <<"T", t>>.                                                             *)
(***************************************************************************)
EXTENDS Integers, Sequences, FiniteSets, TLC

VARIABLES
    \* ---- rotation Lambda and what it talks to
    day,            \* the calendar day (datetime.now(), in days)
    due,            \* the schedule rule has a trigger pending for today
    runsToday,      \* invocations started since the last midnight
    pc,             \* the position of the running invocation in run()
    outcome,        \* how the last invocation ended
    graphql_api_id, \* local of run()
    new_api_key,    \* local of run()
    keysToCheck,    \* response.get('apiKeys') still to iterate
    calls,          \* the SDK calls of the current invocation, in order
    lastExc,        \* the exception an SDK call of this invocation raised
    ssm,            \* the two SSM parameters
    apiKeys,        \* the API keys AppSync holds for the API
    nextKeyId,      \* AppSync's source of fresh key ids
    \* ---- AppSync resolvers and the DynamoDB table behind them
    table,          \* websiteMetadataTable: <<PK, SK>> -> item (attribute map)
    now,            \* $util.time.nowISO8601(), as a number
    ctx,            \* $ctx of the last resolver invocation
    ddb,            \* the DynamoDB request its request mapping template produced
    response,       \* what the resolver answered
    pipeline,       \* the functions a pipeline resolver has still to run
    engine,         \* what the template engine does where the source relies on it
    \* ---- the elasticsearch deployment pipeline (CodePipeline)
    executions      \* the pipeline's executions: id -> where the execution is

rotVars == <<day, due, runsToday, pc, outcome, graphql_api_id, new_api_key,
             keysToCheck, calls, lastExc, ssm, apiKeys, nextKeyId>>

apiVars == <<table, now, ctx, ddb, response, pipeline, engine>>

cdVars == <<executions>>

vars == <<rotVars, apiVars, cdVars>>

Null == [i \in 1..24 |-> "null"]

(***************************************************************************)
(* Bounds of the model.                                                    *)
(***************************************************************************)
MaxDay == 9

MaxIdLen == 2

MaxRecords == 1

\* the clock runs from 0 to MaxTime
MaxTime == 2

\* the executions of the deployment pipeline are numbered 1..MaxExecutions
MaxExecutions == 2

\* a failed stage is retried at most MaxRetries times in an execution
MaxRetries == 1

\* a Query returns at most 1 MB of a partition: MaxPage records, the records
\* taken to be of one size
MaxPage == 5

\* an Item of the tables of SpecSubjects has at most MaxSubjects subjects
MaxSubjects == 2

(***************************************************************************)
(* The deployment pipeline of elasticsearch (DeploymentPipelineStack).  An  *)
(* execution runs the pipeline's stages in their order; in a stage the      *)
(* actions run by ascending runOrder, those of one runOrder together, and   *)
(* an action starts when all actions of a lower runOrder have succeeded.    *)
(* A stage holds one execution at a time; an execution that waits for the   *)
(* next stage is superseded by a later one that catches up with it.         *)
(***************************************************************************)
\* GitHubSourceAction: no runOrder given, which is runOrder 1
infraSourceAction ==
    [actionName |-> "InfraCode", category |-> "Source", runOrder |-> 1]

\* the action of a CDKPipelineDeploy (../cdk-pipeline-deploy): a CodeBuild
\* action with no runOrder of its own
CDKPipelineDeployAction(namespace) ==
    [actionName |-> namespace \o "-deploy", category |-> "Build", runOrder |-> 1]

deployTest == CDKPipelineDeployAction("test")

approvalActionFirst ==
    [actionName |-> "Approval", category |-> "Approval", runOrder |-> 1]

approvalAction ==
    [actionName |-> "Approval", category |-> "Approval", runOrder |-> 99]

deployProd == CDKPipelineDeployAction("prod")

\* new codepipeline.Pipeline(..., { stages: [...] })
Stages ==
    <<[stageName |-> "Source", actions |-> {infraSourceAction}],
      [stageName |-> "Test", actions |-> {deployTest, approvalAction}],
      [stageName |-> "Production", actions |-> {deployProd}]>>

ActionNames(stage) == {a.actionName : a \in Stages[stage].actions}

\* the actions of the stage an execution is in
StageActions(execution) ==
    IF execution.stage = 0 THEN {} ELSE Stages[execution.stage].actions

\* an execution: its status, the stage it is in, the actions it has started,
\* those that succeeded and those that failed, and its retries so far
NotStarted ==
    [status |-> "None", stage |-> 0, started |-> {}, succeeded |-> {},
     failed |-> {}, retries |-> 0]

\* the pipeline just deployed
PipelineDeployed == executions = [e \in 1..MaxExecutions |-> NotStarted]

InProgress(e) == executions[e].status = "InProgress"

\* the execution has done with the actions of its stage
StageDone(e) ==
    InProgress(e) /\ ActionNames(executions[e].stage) \subseteq executions[e].succeeded

\* the stage is taken by an execution that runs its actions
Occupied(stage) ==
    \E e \in 1..MaxExecutions :
        executions[e].stage = stage /\ InProgress(e) /\ ~StageDone(e)

\* GitHubTrigger.WEBHOOK or POLL: a commit starts an execution in Source
StartPipelineExecution ==
    /\ \E e \in 1..MaxExecutions :
          /\ executions[e].status = "None"
          /\ \A d \in 1..(e - 1) : executions[d].status # "None"
          /\ ~Occupied(1)
          /\ executions' = [executions EXCEPT ![e].status = "InProgress",
                                               ![e].stage = 1]
    /\ UNCHANGED rotVars
    /\ UNCHANGED apiVars

\* an action of the execution's stage starts
StartAction ==
    /\ \E e \in 1..MaxExecutions : \E a \in StageActions(executions[e]) :
          /\ InProgress(e)
          /\ a.actionName \notin executions[e].started
          /\ \A b \in StageActions(executions[e]) :
                b.runOrder < a.runOrder => b.actionName \in executions[e].succeeded
          /\ executions' = [executions EXCEPT
                               ![e].started = @ \cup {a.actionName}]
    /\ UNCHANGED rotVars
    /\ UNCHANGED apiVars

Running(e) ==
    {a \in StageActions(executions[e]) :
        /\ a.actionName \in executions[e].started
        /\ a.actionName \notin executions[e].succeeded \cup executions[e].failed}

\* a source or build action ends well
ActionSucceeds ==
    /\ \E e \in 1..MaxExecutions : \E a \in Running(e) :
          /\ executions[e].status \in {"InProgress", "Failed"}
          /\ a.category # "Approval"
          /\ executions' = [executions EXCEPT
                               ![e].succeeded = @ \cup {a.actionName}]
    /\ UNCHANGED rotVars
    /\ UNCHANGED apiVars

\* a source or build action fails, and with it the execution
ActionFails ==
    /\ \E e \in 1..MaxExecutions : \E a \in Running(e) :
          /\ executions[e].status \in {"InProgress", "Failed"}
          /\ a.category # "Approval"
          /\ executions' = [executions EXCEPT
                               ![e].failed = @ \cup {a.actionName},
                               ![e].status = "Failed"]
    /\ UNCHANGED rotVars
    /\ UNCHANGED apiVars

\* ManualApprovalAction: somebody approves or rejects (or nobody does in
\* time, which is a rejection)
PutApprovalResult ==
    /\ \E e \in 1..MaxExecutions : \E a \in Running(e) :
        \E approved \in BOOLEAN :
          /\ executions[e].status \in {"InProgress", "Failed"}
          /\ a.category = "Approval"
          /\ executions' =
                IF approved
                THEN [executions EXCEPT ![e].succeeded = @ \cup {a.actionName}]
                ELSE [executions EXCEPT ![e].failed = @ \cup {a.actionName},
                                        ![e].status = "Failed"]
    /\ UNCHANGED rotVars
    /\ UNCHANGED apiVars

\* the failed actions of a failed stage are run again
RetryStageExecution ==
    /\ \E e \in 1..MaxExecutions :
          /\ executions[e].status = "Failed"
          /\ Running(e) = {}
          /\ ~Occupied(executions[e].stage)
          /\ executions[e].retries < MaxRetries
          /\ executions' = [executions EXCEPT
                               ![e].status = "InProgress",
                               ![e].started = @ \ executions[e].failed,
                               ![e].failed = {},
                               ![e].retries = @ + 1]
    /\ UNCHANGED rotVars
    /\ UNCHANGED apiVars

\* the execution goes on to the next stage, or has succeeded after the last
EnterNextStage ==
    /\ \E e \in 1..MaxExecutions :
          /\ StageDone(e)
          /\ IF executions[e].stage = Len(Stages)
             THEN executions' = [executions EXCEPT ![e].status = "Succeeded"]
             ELSE /\ ~Occupied(executions[e].stage + 1)
                  /\ executions' = [executions EXCEPT ![e].stage = @ + 1]
    /\ UNCHANGED rotVars
    /\ UNCHANGED apiVars

\* an execution waiting before a stage is superseded by a later execution
\* that waits there too
Supersede ==
    /\ \E e \in 1..MaxExecutions, later \in 1..MaxExecutions :
          /\ e < later
          /\ StageDone(e)
          /\ StageDone(later)
          /\ executions[later].stage = executions[e].stage
          /\ executions' = [executions EXCEPT ![e].status = "Superseded"]
    /\ UNCHANGED rotVars
    /\ UNCHANGED apiVars

(***************************************************************************)
(* The rotation Lambda.                                                    *)
(***************************************************************************)
daysForKeyToLast == 7

AutoDescription == "auto maintained api key"

ApiId == <<"a", "p", "i">>

NoException == [call |-> "none", kind |-> "none"]

ExceptionKinds == {"ClientError", "BotoCoreError"}

\* Python truthiness of a str-or-None
Truthy(x) == x # Null /\ x # <<>>

\* the environment the stack gives the function
GRAPHQL_API_ID_KEY_PATH == <<"i", "d">>

GRAPHQL_API_KEY_KEY_PATH == <<"k", "e", "y">>

\* _get_expire_time: AppSync requires a key to expire less than 365 days ahead
CappedDays == 364

_get_expire_time(days, t) == t + (IF days > CappedDays THEN CappedDays ELSE days)

\* the except clause of _get_parameter
CaughtAnyException(call, kind) == call = "get_parameter"

Caught(call, kind) == call = "get_parameter" /\ kind = "ClientError"

\* the order of the statements of run()
StepAfterSwapped(step) ==
    CASE step = "get_parameter"  -> "create_api_key"
      [] step = "create_api_key" -> "list_api_keys"
      [] step = "list_api_keys"  -> "put_parameter"
      [] step = "put_parameter"  -> "delete_api_key"
      [] OTHER                   -> "idle"

StepAfter(step) ==
    CASE step = "get_parameter"  -> "create_api_key"
      [] step = "create_api_key" -> "put_parameter"
      [] step = "put_parameter"  -> "list_api_keys"
      [] step = "list_api_keys"  -> "delete_api_key"
      [] OTHER                   -> "idle"

\* the Value argument of put_parameter in _save_secure_parameter
SavedValueIsApiId(key_id, api_id) == api_id

SavedValue(key_id, api_id) == key_id

\* the condition of _delete_expired_api_keys
ShouldDeleteAnyExpired(api_key, t) == api_key.expires < t

ShouldDelete(api_key, t) ==
    api_key.expires < t /\ api_key.description = AutoDescription

\* response.get('apiKeys') as a list: the keys in the order of their ids
RECURSIVE KeyList(_)
KeyList(S) ==
    IF S = {} THEN <<>>
    ELSE LET k == CHOOSE x \in S : \A y \in S : x.id[2] <= y.id[2]
         IN <<k>> \o KeyList(S \ {k})

Call(op, arg, result) == [op |-> op, arg |-> arg, result |-> result]

\* an exception leaves run() unless the statement that raised it catches it
Raise(call, kind) ==
    /\ lastExc' = [call |-> call, kind |-> kind]
    /\ pc' = "idle"
    /\ outcome' = "raised"

\* the function before its first invocation, the stack just deployed
RotationDeployed ==
    /\ day = 0
    /\ due = FALSE
    /\ runsToday = 0
    /\ pc = "idle"
    /\ outcome = "none"
    /\ graphql_api_id = Null
    /\ new_api_key = Null
    /\ keysToCheck = <<>>
    /\ calls = <<>>
    /\ lastExc = NoException
    /\ ssm = [apiId |-> ApiId, apiKey |-> Null]
       \* the key of the stack's apiKeyConfig: no description, daysForKeyToLast
    /\ apiKeys = {[id |-> <<"key", 0>>, expires |-> daysForKeyToLast,
                   description |-> "none"]}
    /\ nextKeyId = 1

\* The templates rely on two behaviours of the engine the source does not fix:
\* whether #set with a null right-hand side assigns, and whether an empty
\* string is false in #if.
Engines == [setAssignsNull : BOOLEAN, emptyIsFalse : BOOLEAN]

\* $ctx: the field resolved, its arguments, the caller, the parent object,
\* the stash, and what the data source gave
Context(field, arguments, identity, source, stash, result, error) ==
    [field |-> field, arguments |-> arguments, identity |-> identity,
     source |-> source, stash |-> stash, result |-> result, error |-> error]

\* what a template evaluates to: the field's data, or a field error
Answer(data) == [k \in {"data", "error"} |-> IF k = "data" THEN data ELSE Null]

NoRequest == [operation |-> "none"]

\* no request is being served
ApiIdle ==
    /\ now = 0
    /\ ctx = Context("none", <<>>, Null, <<>>, <<>>, Null, Null)
    /\ ddb = NoRequest
    /\ response = Answer(Null)
    /\ pipeline = <<>>

\* the API before its first request: the table is empty
ApiDeployed ==
    /\ table = <<>>
    /\ ApiIdle

InitRotate ==
    /\ RotationDeployed
    /\ PipelineDeployed
    /\ ApiDeployed
    /\ engine = [setAssignsNull |-> FALSE, emptyIsFalse |-> FALSE]

\* midnight: Schedule.cron({ minute: '0', hour: '0' })
Midnight ==
    /\ pc = "idle"
    /\ ~due
    /\ day < MaxDay
    /\ day' = day + 1
    /\ due' = TRUE
    /\ runsToday' = 0
    /\ UNCHANGED <<pc, outcome, graphql_api_id, new_api_key, keysToCheck, calls,
                   lastExc, ssm, apiKeys, nextKeyId>>
    /\ UNCHANGED apiVars
    /\ UNCHANGED cdVars

\* the rule starts the function: a fresh invocation of run(event, _context)
RotateAPIKeysRule ==
    /\ pc = "idle"
    /\ due
    /\ due' = FALSE
    /\ runsToday' = runsToday + 1
    /\ pc' = IF Truthy(GRAPHQL_API_ID_KEY_PATH) THEN "get_parameter" ELSE "idle"
    /\ outcome' = IF Truthy(GRAPHQL_API_ID_KEY_PATH) THEN "running" ELSE "returned"
    /\ graphql_api_id' = Null
    /\ new_api_key' = Null
    /\ keysToCheck' = <<>>
    /\ calls' = <<>>
    /\ lastExc' = NoException
    /\ UNCHANGED <<day, ssm, apiKeys, nextKeyId>>
    /\ UNCHANGED apiVars
    /\ UNCHANGED cdVars

\* graphql_api_id = _get_parameter(graphql_api_id_key_path)
GetParameter ==
    /\ pc = "get_parameter"
    /\ calls' = Append(calls, Call("get_parameter", GRAPHQL_API_ID_KEY_PATH, Null))
    /\ \/ /\ graphql_api_id' = ssm.apiId
          /\ lastExc' = lastExc
          /\ IF Truthy(ssm.apiId) /\ Truthy(GRAPHQL_API_KEY_KEY_PATH)
             THEN pc' = StepAfter("get_parameter") /\ outcome' = outcome
             ELSE pc' = "idle" /\ outcome' = "returned"
       \/ \E kind \in ExceptionKinds :
            IF Caught("get_parameter", kind)
            THEN /\ graphql_api_id' = Null
                 /\ lastExc' = [call |-> "get_parameter", kind |-> kind]
                 /\ pc' = "idle"
                 /\ outcome' = "returned"
            ELSE /\ Raise("get_parameter", kind)
                 /\ graphql_api_id' = graphql_api_id
    /\ UNCHANGED <<day, due, runsToday, new_api_key, keysToCheck, ssm, apiKeys,
                   nextKeyId>>
    /\ UNCHANGED apiVars
    /\ UNCHANGED cdVars

\* new_api_key = _generate_new_api_key(graphql_api_id, expire_time)
CreateApiKey ==
    /\ pc = "create_api_key"
    /\ LET expire_time == _get_expire_time(daysForKeyToLast, day)
           key_id == <<"key", nextKeyId>>
       IN \/ /\ apiKeys' = apiKeys \cup
                    {[id |-> key_id, expires |-> expire_time,
                      description |-> AutoDescription]}
             /\ nextKeyId' = nextKeyId + 1
             /\ new_api_key' = key_id
             /\ calls' = Append(calls, Call("create_api_key", graphql_api_id, key_id))
             /\ IF Truthy(key_id)
                THEN pc' = StepAfter("create_api_key") /\ outcome' = outcome
                ELSE pc' = "idle" /\ outcome' = "returned"
             /\ lastExc' = lastExc
          \/ \E kind \in ExceptionKinds :
               /\ Raise("create_api_key", kind)
               /\ calls' = Append(calls, Call("create_api_key", graphql_api_id, Null))
               /\ UNCHANGED <<apiKeys, nextKeyId, new_api_key>>
    /\ UNCHANGED <<day, due, runsToday, graphql_api_id, keysToCheck, ssm>>
    /\ UNCHANGED apiVars
    /\ UNCHANGED cdVars

\* _save_secure_parameter(graphql_api_key_key_path, new_api_key)
PutParameter ==
    /\ pc = "put_parameter"
    /\ LET value == SavedValue(new_api_key, graphql_api_id)
       IN /\ calls' = Append(calls, Call("put_parameter", value, Null))
          /\ \/ /\ ssm' = [ssm EXCEPT !.apiKey = value]
                /\ pc' = StepAfter("put_parameter")
                /\ UNCHANGED <<outcome, lastExc>>
             \/ \E kind \in ExceptionKinds :
                  /\ Raise("put_parameter", kind)
                  /\ ssm' = ssm
    /\ UNCHANGED <<day, due, runsToday, graphql_api_id, new_api_key, keysToCheck,
                   apiKeys, nextKeyId>>
    /\ UNCHANGED apiVars
    /\ UNCHANGED cdVars

\* response = boto3.client('appsync').list_api_keys(apiId=graphql_api_id)
ListApiKeys ==
    /\ pc = "list_api_keys"
    /\ calls' = Append(calls, Call("list_api_keys", graphql_api_id, Null))
    /\ \/ /\ keysToCheck' = KeyList(apiKeys)
          /\ pc' = StepAfter("list_api_keys")
          /\ UNCHANGED <<outcome, lastExc>>
       \/ \E kind \in ExceptionKinds :
            /\ Raise("list_api_keys", kind)
            /\ keysToCheck' = keysToCheck
    /\ UNCHANGED <<day, due, runsToday, graphql_api_id, new_api_key, ssm, apiKeys,
                   nextKeyId>>
    /\ UNCHANGED apiVars
    /\ UNCHANGED cdVars

\* one turn of the loop of _delete_expired_api_keys, or its end and run's return
DeleteExpiredApiKeys ==
    /\ pc = "delete_api_key"
    /\ IF keysToCheck = <<>>
       THEN /\ pc' = "idle"
            /\ outcome' = "returned"
            /\ UNCHANGED <<keysToCheck, calls, lastExc, apiKeys>>
       ELSE LET api_key == Head(keysToCheck)
            IN IF ShouldDelete(api_key, day)
               THEN /\ calls' = Append(calls, Call("delete_api_key", api_key.id, Null))
                    /\ \/ /\ apiKeys' = {k \in apiKeys : k.id # api_key.id}
                          /\ keysToCheck' = Tail(keysToCheck)
                          /\ UNCHANGED <<pc, outcome, lastExc>>
                       \/ \E kind \in ExceptionKinds :
                            /\ Raise("delete_api_key", kind)
                            /\ UNCHANGED <<apiKeys, keysToCheck>>
               ELSE /\ keysToCheck' = Tail(keysToCheck)
                    /\ UNCHANGED <<pc, outcome, calls, lastExc, apiKeys>>
    /\ UNCHANGED <<day, due, runsToday, graphql_api_id, new_api_key, ssm, nextKeyId>>
    /\ UNCHANGED apiVars
    /\ UNCHANGED cdVars

NextRotate ==
    \/ Midnight
    \/ RotateAPIKeysRule
    \/ GetParameter
    \/ CreateApiKey
    \/ PutParameter
    \/ ListApiKeys
    \/ DeleteExpiredApiKeys

SpecRotate == InitRotate /\ [][NextRotate]_vars

(***************************************************************************)
(* Claims about the rotation Lambda.                                       *)
(***************************************************************************)
CallOps == [i \in 1..Len(calls) |-> calls[i].op]

CountOp(op) == Cardinality({i \in 1..Len(calls) : calls[i].op = op})

\* C5, as stated: an exception raised by any of the five SDK calls leaves run(),
\* so the invocation ends in an error and does not return normally.
C5_EveryExceptionPropagates ==
    lastExc # NoException => outcome = "raised"

\* C5, amended: an exception raised by create_api_key, put_parameter,
\* list_api_keys or delete_api_key, and an exception of get_parameter that is no
\* botocore ClientError, leaves run(); a ClientError of get_parameter is caught,
\* and run() returns normally having made no other call.
C5_ExceptionsPropagateButCaughtClientError ==
    /\ (/\ lastExc # NoException
        /\ lastExc # [call |-> "get_parameter", kind |-> "ClientError"])
       => outcome = "raised"
    /\ lastExc = [call |-> "get_parameter", kind |-> "ClientError"]
       => (outcome = "returned" /\ CallOps = <<"get_parameter">>)

C5_Witness ==
    /\ lastExc.call = "delete_api_key"
    /\ outcome = "raised"

\* C6: the rule starts the Lambda once per day, and the calls of one invocation
\* come in the order get_parameter, create_api_key, put_parameter, list_api_keys,
\* delete_api_key...; a key is deleted only after the new key was written to SSM
\* in the same invocation.
C6_OncePerDayInOrder ==
    /\ runsToday <= 1
    /\ \A i \in 1..Len(calls) :
         calls[i].op = CASE i = 1 -> "get_parameter"
                         [] i = 2 -> "create_api_key"
                         [] i = 3 -> "put_parameter"
                         [] i = 4 -> "list_api_keys"
                         [] OTHER -> "delete_api_key"
    /\ \A i \in 1..Len(calls) :
         calls[i].op = "delete_api_key" =>
           /\ \E j \in 1..(i - 1) : calls[j].op = "put_parameter"
           /\ Truthy(new_api_key)
           /\ ssm.apiKey = new_api_key

C6_Witness ==
    /\ Len(calls) >= 5
    /\ calls[5].op = "delete_api_key"
    /\ outcome = "returned"

\* C7: one invocation reads the API-id parameter at most once and writes the
\* API-key parameter at most once, only after create_api_key returned a key in
\* the same invocation and with that key's id; an invocation starts with no
\* state of an earlier one.
C7_OneReadOneWriteOfCreatedKey ==
    /\ CountOp("get_parameter") <= 1
    /\ CountOp("put_parameter") <= 1
    /\ \A i \in 1..Len(calls) :
         calls[i].op = "put_parameter" =>
           \E j \in 1..(i - 1) :
             /\ calls[j].op = "create_api_key"
             /\ calls[j].result # Null
             /\ calls[i].arg = calls[j].result
    /\ pc = "get_parameter" =>
         /\ graphql_api_id = Null
         /\ new_api_key = Null
         /\ keysToCheck = <<>>
         /\ calls = <<>>
         /\ lastExc = NoException

C7_Witness ==
    /\ day >= 2
    /\ CountOp("put_parameter") = 1
    /\ ssm.apiKey = <<"key", 2>>
    /\ outcome = "returned"

\* C8: a key leaves AppSync's key set only if it has expired and carries the
\* Lambda's description: no unexpired key and no key of another origin (the
\* stack's apiKeyConfig key) is ever deleted.
C8_DeletesOnlyExpiredAutoKeys ==
    [][\A k \in apiKeys :
         k \notin apiKeys' => (k.expires < day /\ k.description = AutoDescription)]_vars

C8_Witness ==
    /\ CountOp("delete_api_key") >= 1
    /\ outcome = "returned"
    /\ \E k \in apiKeys : k.description # AutoDescription /\ k.expires < day
    /\ \E k \in apiKeys : k.description = AutoDescription /\ k.expires >= day

(***************************************************************************)
(* Strings of the mapping templates.                                       *)
(***************************************************************************)
VTrue == <<"true">>

VFalse == <<"false">>

\* the characters the ids of the model are written with
IdChars == {"a", " "}

RECURSIVE StringsUpTo(_, _)
StringsUpTo(chars, n) ==
    IF n = 0 THEN {<<>>}
    ELSE LET shorter == StringsUpTo(chars, n - 1)
         IN shorter \cup {Append(s, c) : s \in shorter, c \in chars}

\* what a client may pass for an id argument: nothing, or a string
IdArgs == {Null} \cup StringsUpTo(IdChars, MaxIdLen)

\* $util.time.nowISO8601()
nowISO8601(t) == <<"T", ToString(t)>>

\* $util.autoId(): a UUID, in lower case
autoId == <<"uuid">>

\* java.lang.String.toUpperCase, character by character
UpperChar(c) ==
    CASE c = "a" -> "A"
      [] c = "b" -> "B"
      [] c = "l" -> "L"
      [] c = "n" -> "N"
      [] c = "u" -> "U"
      [] c = "w" -> "W"
      [] c = "uuid" -> "UUID"
      [] c = "public" -> "PUBLIC"
      [] OTHER -> c

\* $util.str.toUpper
toUpper(s) == [i \in 1..Len(s) |-> UpperChar(s[i])]

\* $util.str.toReplace(s, " ", "")
toReplace(s) == SelectSeq(s, LAMBDA c : c # " ")

\* $util.isNullOrBlank: null, empty or white space only
isNullOrBlank(s) == s = Null \/ \A i \in 1..Len(s) : s[i] = " "

\* $util.defaultIfNullOrBlank
defaultIfNullOrBlank(s, d) == IF isNullOrBlank(s) THEN d ELSE s

\* the four lines every template spends on an id: default "", upper case,
\* spaces removed
Normalize(id) == toReplace(toUpper(defaultIfNullOrBlank(id, <<>>)))

(***************************************************************************)
(* DynamoDB: the table, typed values, update expressions.                  *)
(***************************************************************************)
\* an attribute map with one attribute set, or removed
Put(item, attr, v) ==
    [a \in DOMAIN item \cup {attr} |-> IF a = attr THEN v ELSE item[a]]

Without(item, attrs) == [a \in DOMAIN item \ attrs |-> item[a]]

\* $map.key: null where the map is null or has no such key
Get(map, key) ==
    IF map = Null THEN Null
    ELSE IF \E k \in DOMAIN map : k = key THEN map[key] ELSE Null

\* a list value ([...] of the templates, L of DynamoDB)
List(seq) == "list" :> seq

\* what #foreach iterates over: nothing, when the reference is null
Elements(list) == IF list = Null THEN <<>> ELSE list.list

\* $util.dynamodb.toDynamoDB: a value with its DynamoDB type
toDynamoDB(v) ==
    CASE v = Null             -> [type |-> "NULL", value |-> Null]
      [] v \in {VTrue, VFalse} -> [type |-> "BOOL", value |-> v]
      [] OTHER                -> [type |-> "S", value |-> v]

\* what AppSync hands back for a typed value of a result
fromDynamoDB(tv) == IF tv.type = "NULL" THEN Null ELSE tv.value

\* An update expression is a sequence of tokens <<kind, text>>:
\*   <<"kw", "SET">>  <<"kw", "REMOVE">>  <<"sym", "=">>  <<"sym", ",">>
\*   <<"#", k>> for the placeholder #k    <<":", k>> for the placeholder :k
\*   <<"attr", k>> for an attribute written out
\*   <<"fn", "if_not_exists">>, followed by its path and its value
Kw(w) == <<"kw", w>>

Eq == <<"sym", "=">>

Comma == <<"sym", ",">>

NameRef(k) == <<"#", k>>

ValueRef(k) == <<":", k>>

Attr(k) == <<"attr", k>>

IfNotExists == <<"fn", "if_not_exists">>

\* the tokens of one clause: those after its keyword, up to the next keyword
RECURSIVE UpToKeyword(_)
UpToKeyword(tokens) ==
    IF tokens = <<>> \/ Head(tokens)[1] = "kw" THEN <<>>
    ELSE <<Head(tokens)>> \o UpToKeyword(Tail(tokens))

RECURSIVE Clause(_, _)
Clause(tokens, keyword) ==
    IF tokens = <<>> THEN <<>>
    ELSE IF Head(tokens) = Kw(keyword) THEN UpToKeyword(Tail(tokens))
    ELSE Clause(Tail(tokens), keyword)

HasClause(tokens, keyword) == \E i \in 1..Len(tokens) : tokens[i] = Kw(keyword)

\* the actions of a clause: its tokens split at the commas
RECURSIVE SplitAtCommas(_, _)
SplitAtCommas(tokens, current) ==
    IF tokens = <<>> THEN <<current>>
    ELSE IF Head(tokens) = Comma
         THEN <<current>> \o SplitAtCommas(Tail(tokens), <<>>)
         ELSE SplitAtCommas(Tail(tokens), Append(current, Head(tokens)))

ActionsOf(tokens, keyword) ==
    IF HasClause(tokens, keyword)
    THEN SplitAtCommas(Clause(tokens, keyword), <<>>)
    ELSE <<>>

IsPath(tok) == tok[1] \in {"#", "attr"}

\* path = :value   or   path = if_not_exists(path, :value)
IsSetAction(a) ==
    \/ Len(a) = 3 /\ IsPath(a[1]) /\ a[2] = Eq /\ a[3][1] = ":"
    \/ /\ Len(a) = 5 /\ IsPath(a[1]) /\ a[2] = Eq /\ a[3] = IfNotExists
       /\ IsPath(a[4]) /\ a[5][1] = ":"

IsRemoveAction(a) == Len(a) = 1 /\ IsPath(a[1])

PathsOf(a) == {a[i] : i \in {j \in 1..Len(a) : IsPath(a[j])}}

ValuesOf(a) == {a[i] : i \in {j \in 1..Len(a) : a[j][1] = ":"}}

\* the attribute a path names
AttrOf(path, names) == IF path[1] = "#" THEN names[path] ELSE path[2]

\* ValidationException: the grammar, every placeholder used defined and
\* every placeholder defined used, no attribute updated twice, no key updated
ValidUpdate(update) ==
    LET sets == ActionsOf(update.expression, "SET")
        removes == ActionsOf(update.expression, "REMOVE")
        all == sets \o removes
        usedPaths == UNION {PathsOf(all[i]) : i \in 1..Len(all)}
        usedValues == UNION {ValuesOf(all[i]) : i \in 1..Len(all)}
        usedNames == {p \in usedPaths : p[1] = "#"}
    IN /\ update.expression # <<>>
       /\ Head(update.expression)[1] = "kw"
       /\ HasClause(update.expression, "SET") => sets # <<>>
       /\ HasClause(update.expression, "REMOVE") => removes # <<>>
       /\ \A i \in 1..Len(sets) : IsSetAction(sets[i])
       /\ \A i \in 1..Len(removes) : IsRemoveAction(removes[i])
       /\ usedNames = DOMAIN update.expressionNames
       /\ usedValues = DOMAIN update.expressionValues
       /\ Cardinality({AttrOf(all[i][1], update.expressionNames) :
                          i \in 1..Len(all)}) = Len(all)
       /\ \A i \in 1..Len(all) :
            AttrOf(all[i][1], update.expressionNames) \notin {"PK", "SK"}

\* UpdateItem on one item: the SET actions read the item as it was
RECURSIVE ApplySetsOverwriting(_, _, _, _)
ApplySetsOverwriting(sets, item, old, update) ==
    IF sets = <<>> THEN item
    ELSE LET a == Head(sets)
             attr == AttrOf(a[1], update.expressionNames)
             v == fromDynamoDB(update.expressionValues[a[Len(a)]])
         IN ApplySetsOverwriting(Tail(sets), Put(item, attr, v), old, update)

RECURSIVE ApplySets(_, _, _, _)
ApplySets(sets, item, old, update) ==
    IF sets = <<>> THEN item
    ELSE LET a == Head(sets)
             attr == AttrOf(a[1], update.expressionNames)
             v == IF Len(a) = 3
                  THEN fromDynamoDB(update.expressionValues[a[3]])
                  ELSE LET guard == AttrOf(a[4], update.expressionNames)
                       IN IF guard \in DOMAIN old THEN old[guard]
                          ELSE fromDynamoDB(update.expressionValues[a[5]])
         IN ApplySets(Tail(sets), Put(item, attr, v), old, update)

ApplyUpdate(old, update) ==
    LET sets == ActionsOf(update.expression, "SET")
        removes == ActionsOf(update.expression, "REMOVE")
        removed == {AttrOf(removes[i][1], update.expressionNames) :
                      i \in 1..Len(removes)}
    IN Without(ApplySets(sets, old, old, update), removed)

KeyOnly(key) == [a \in {"PK", "SK"} |-> IF a = "PK" THEN key.PK ELSE key.SK]

Stored(t, key) == <<key.PK, key.SK>> \in DOMAIN t

TablePut(t, item) ==
    [k \in DOMAIN t \cup {<<item.PK, item.SK>>} |->
        IF k = <<item.PK, item.SK>> THEN item ELSE t[k]]

TableDelete(t, keys) == [k \in DOMAIN t \ keys |-> t[k]]

\* the order of DynamoDB's sort key: strings by their characters
Collation ==
    <<" ", "#", "0", "1", "2", "3", "A", "ADDED#", "ALL", "B", "ITEM#", "L",
      "N", "PARENTOVERRIDE", "PORTFOLIO", "SUPPLEMENTALDATA#", "U", "USER#",
      "UUID", "URI#", "W", "WEBSITE", "WEBSITE#", "a", "b", "l", "n", "u",
      "uuid", "w">>

Rank(c) == CHOOSE i \in 1..Len(Collation) : Collation[i] = c

RECURSIVE Before(_, _)
Before(s, t) ==
    IF s = <<>> THEN t # <<>>
    ELSE IF t = <<>> THEN FALSE
    ELSE IF Head(s) = Head(t) THEN Before(Tail(s), Tail(t))
    ELSE Rank(Head(s)) < Rank(Head(t))

RECURSIVE BySortKey(_)
BySortKey(items) ==
    IF items = {} THEN <<>>
    ELSE LET first == CHOOSE x \in items :
                         \A y \in items : y = x \/ Before(x.SK, y.SK)
         IN <<first>> \o BySortKey(items \ {first})

\* java.lang.String.startsWith
BeginsWith(s, prefix) ==
    Len(prefix) <= Len(s) /\ SubSeq(s, 1, Len(prefix)) = prefix

ItemsOf(t) == {t[k] : k \in DOMAIN t}

\* the item UpdateItem edits: the one stored, or a new one of the key alone
ReplacedItem(t, key) == KeyOnly(key)

ExistingItem(t, key) ==
    IF Stored(t, key) THEN t[<<key.PK, key.SK>>] ELSE KeyOnly(key)

QueryResult(items) ==
    [k \in {"items", "nextToken"} |-> IF k = "items" THEN items ELSE Null]

\* the first page of what a Query matches, and a token where more is left
QueryPage(items) ==
    IF Len(items) <= MaxPage THEN QueryResult(items)
    ELSE [k \in {"items", "nextToken"} |->
             IF k = "items" THEN SubSeq(items, 1, MaxPage) ELSE <<"token">>]

\* the key condition of a Query: PK = :pk [and begins_with(SK, :beginsWith)]
Matches(item, query) ==
    /\ item.PK = query.pk
    /\ "beginsWith" \in DOMAIN query => BeginsWith(item.SK, query.beginsWith)

\* what the data source does with a request: the table after it, the result
\* and the error it reports
Done(t, result) == [table |-> t, result |-> result, error |-> Null]

\* an error of the data source, as $ctx.error shows it
Error(message, type) ==
    [k \in {"message", "type"} |-> IF k = "message" THEN message ELSE type]

ValidationException == Error("invalid update", "DynamoDB:ValidationException")

Execute(req, t) ==
    CASE req.operation = "GetItem" ->
           Done(t, IF Stored(t, req.key) THEN t[<<req.key.PK, req.key.SK>>] ELSE Null)
      [] req.operation = "DeleteItem" ->
           IF Stored(t, req.key)
           THEN Done(TableDelete(t, {<<req.key.PK, req.key.SK>>}),
                     t[<<req.key.PK, req.key.SK>>])
           ELSE Done(t, Null)
      [] req.operation = "UpdateItem" ->
           IF ~ValidUpdate(req.update)
           THEN [table |-> t, result |-> Null, error |-> ValidationException]
           ELSE LET old == ExistingItem(t, req.key)
                    new == ApplyUpdate(old, req.update)
                IN Done(TablePut(t, new), new)
      [] req.operation = "Query" ->
           Done(t, QueryPage(BySortKey({i \in ItemsOf(t) : Matches(i, req.query)})))
      [] req.operation = "BatchDeleteItem" ->
           Done(TableDelete(t, {<<req.keys[i].PK, req.keys[i].SK>> : i \in 1..Len(req.keys)}),
                "data" :> List(req.keys))
      [] req.operation = "BatchGetItem" ->
           Done(t, "data" :> List(SelectSeq(
                       [i \in 1..Len(req.keys) |->
                           IF Stored(t, req.keys[i])
                           THEN t[<<req.keys[i].PK, req.keys[i].SK>>]
                           ELSE Null],
                       LAMBDA item : item # Null)))

\* errors the data source may report for a request whatever the request
InvocationErrors ==
    {Error("throughput exceeded", "DynamoDB:ProvisionedThroughputExceededException"),
     Error("condition failed", "DynamoDB:ConditionalCheckFailedException")}

(***************************************************************************)
(* Resolvers.                                                              *)
(***************************************************************************)
\* $util.error(message, type): the evaluation stops, the field gets an error
FieldError(message, type) ==
    [k \in {"data", "error"} |-> IF k = "data" THEN Null ELSE Error(message, type)]

\* MappingTemplate.dynamoDbResultItem(): $util.toJson($ctx.result)
dynamoDbResultItem(c) == Answer(c.result)

\* { "items": $util.toJson($context.result.items),
\*   "nextToken": $util.toJson($context.result.nextToken) }
ItemsAndNextToken(c) ==
    Answer(IF c.result = Null THEN QueryResult(Null) ELSE c.result)

\* responseMappingTemplate of a resolver attached to the data source
ResolverResponse(template, c) ==
    CASE template = "dynamoDbResultItem" -> dynamoDbResultItem(c)
      [] template = "ItemsAndNextToken" -> ItemsAndNextToken(c)

\* an argument map: the named arguments, null where the client gave none
Args(names, given) ==
    [a \in names |-> IF a \in DOMAIN given THEN given[a] ELSE Null]

\* the request may not grow the table beyond the bound of the model (the
\* records with SK = PK, which no resolver of the stack writes, not counted)
WithinBound(req) ==
    req.operation = "UpdateItem" /\ ~Stored(table, req.key)
        => Cardinality({k \in DOMAIN table : k[1] # k[2]}) < MaxRecords

\* A resolver attached to the data source: the request of its request
\* template goes to DynamoDB and the response template is evaluated on what
\* came back.  (What the templates do with an error the data source reports
\* for a request of its own accord is the subject of SpecResponse.)
UnitResolver(field, arguments, identity, source, stash, request, template) ==
    \E req \in {request} :
        /\ WithinBound(req)
        /\ \E did \in {Execute(req, table)} :
            \E c \in {Context(field, arguments, identity, source, stash,
                              did.result, did.error)} :
                /\ ddb' = req
                /\ table' = did.table
                /\ ctx' = c
                /\ response' = ResolverResponse(template, c)

Key(pk, sk) == [PK |-> pk, SK |-> sk]

\* "a = :a, b = :b, ...": the tokens of a list of assignments, each given
\* as its path followed by its operand
RECURSIVE Assignments(_)
Assignments(list) ==
    IF list = <<>> THEN <<>>
    ELSE <<Head(Head(list)), Eq>> \o Tail(Head(list))
         \o (IF Tail(list) = <<>> THEN <<>> ELSE <<Comma>>)
         \o Assignments(Tail(list))

\* Mutation.addItemToWebsite
addItemToWebsiteRequest(args, t) ==
    LET websiteId == Normalize(args.websiteId)
        itemId == Normalize(args.itemId)
        pk == <<"WEBSITE#">> \o websiteId
        sk == <<"ITEM#">> \o itemId
        GSI1PK == pk
        GSI1SK == <<"ADDED#">> \o nowISO8601(t)
    IN [operation |-> "UpdateItem",
        key |-> Key(pk, sk),
        update |->
          [expression |-> <<Kw("SET")>> \o Assignments(
              <<<<Attr("itemId"), ValueRef("itemId")>>,
                <<Attr("websiteId"), ValueRef("websiteId")>>,
                <<NameRef("TYPE"), ValueRef("rowType")>>,
                <<Attr("dateModifiedInDynamo"), ValueRef("dateModifiedInDynamo")>>,
                <<Attr("GSI1PK"), ValueRef("GSI1PK")>>,
                <<Attr("GSI1SK"), ValueRef("GSI1SK")>>,
                <<Attr("id"), ValueRef("id")>>>>),
           expressionNames |-> (NameRef("TYPE") :> "TYPE"),
           expressionValues |->
              (ValueRef("itemId") :> toDynamoDB(args.itemId))
              @@ (ValueRef("websiteId") :> toDynamoDB(args.websiteId))
              @@ (ValueRef("rowType") :> toDynamoDB(<<"WebSiteItem">>))
              @@ (ValueRef("dateModifiedInDynamo") :> toDynamoDB(nowISO8601(t)))
              @@ (ValueRef("GSI1PK") :> toDynamoDB(GSI1PK))
              @@ (ValueRef("GSI1SK") :> toDynamoDB(GSI1SK))
              @@ (ValueRef("id") :> toDynamoDB(args.itemId))]]

\* the ids of the enclosing website or collection the requests are made for
ScopeIdArgs == {<<"a">>, <<"A">>}

AddItemToWebsite ==
    /\ \E websiteId \in ScopeIdArgs, itemId \in IdArgs :
           LET args == ("websiteId" :> websiteId) @@ ("itemId" :> itemId)
               req == addItemToWebsiteRequest(args, now)
               stash == ("itemId" :> args.itemId) @@ ("websiteId" :> args.websiteId)
           IN UnitResolver("addItemToWebsite", args, Null, <<>>, stash, req,
                           "dynamoDbResultItem")
    /\ UNCHANGED <<now, engine, pipeline>>
    /\ UNCHANGED rotVars
    /\ UNCHANGED cdVars

\* Mutation.removeItemFromWebsite
removeItemFromWebsiteRequest(args) ==
    LET websiteId == Normalize(args.websiteId)
        itemId == Normalize(args.itemId)
        pk == <<"WEBSITE#">> \o websiteId
        sk == <<"ITEM#">> \o itemId
    IN [operation |-> "DeleteItem", key |-> Key(pk, sk)]

RemoveItemFromWebsite ==
    /\ \E websiteId \in ScopeIdArgs, itemId \in IdArgs :
           LET args == ("websiteId" :> websiteId) @@ ("itemId" :> itemId)
           IN UnitResolver("removeItemFromWebsite", args, Null, <<>>, <<>>,
                           removeItemFromWebsiteRequest(args), "dynamoDbResultItem")
    /\ UNCHANGED <<now, engine, pipeline>>
    /\ UNCHANGED rotVars
    /\ UNCHANGED cdVars

\* Query.getWebsite
getWebsiteRequest(args) ==
    LET id == Normalize(args.id)
        fullId == <<"WEBSITE#">> \o id
    IN [operation |-> "GetItem", key |-> Key(<<"WEBSITE">>, fullId)]

GetWebsite ==
    /\ \E id \in IdArgs :
           LET args == "id" :> id
           IN UnitResolver("getWebsite", args, Null, <<>>, <<>>,
                           getWebsiteRequest(args), "dynamoDbResultItem")
    /\ UNCHANGED <<now, engine, pipeline>>
    /\ UNCHANGED rotVars
    /\ UNCHANGED cdVars

\* Query.listItemsByWebsite
listItemsByWebsiteRequest(args) ==
    LET id == Normalize(args.id)
        fullId == <<"WEBSITE#">> \o id
    IN [operation |-> "Query", query |-> [pk |-> fullId]]

ListItemsByWebsite ==
    /\ \E id \in IdArgs :
           LET args == "id" :> id
           IN UnitResolver("listItemsByWebsite", args, Null, <<>>, <<>>,
                           listItemsByWebsiteRequest(args), "ItemsAndNextToken")
    /\ UNCHANGED <<now, engine, pipeline>>
    /\ UNCHANGED rotVars
    /\ UNCHANGED cdVars

\* the signed-in caller: $ctx.identity.claims.netid
Caller == [claims |-> [netid |-> <<"n">>]]

\* #if( !$x ) for a string $x that is not null
NotString(x, eng) == x = <<>> /\ eng.emptyIsFalse

\* Mutation.savePortfolioItem
savePortfolioItemRequest(args, identity, t, eng) ==
    LET portfolioUserId == identity.claims.netid
        portfolioCollectionId == Normalize(args.portfolioCollectionId)
        originalPortfolioItemId ==
            defaultIfNullOrBlank(args.portfolioItemId, args.internalItemId)
        withUri == defaultIfNullOrBlank(originalPortfolioItemId, args.uri)
        portfolioItemId == defaultIfNullOrBlank(withUri, autoId)
        pk == <<"PORTFOLIO">>
        sk == toUpper(<<"USER#">> \o portfolioUserId \o <<"#">>
                      \o portfolioCollectionId \o <<"#">> \o portfolioItemId)
        external == NotString(defaultIfNullOrBlank(args.internalItemId, <<>>), eng)
        itemType == IF external
                    THEN defaultIfNullOrBlank(args.itemType, <<"internal">>)
                    ELSE <<"internal">>
        GSI1PK == <<"PORTFOLIOITEM">>
        GSI1SK == toUpper(<<"INTERNALITEM#">> \o portfolioItemId)
        common ==
            <<<<Attr("portfolioItemId"), ValueRef("portfolioItemId")>>,
              <<Attr("portfolioCollectionId"), ValueRef("portfolioCollectionId")>>,
              <<Attr("portfolioUserId"), ValueRef("portfolioUserId")>>,
              <<NameRef("TYPE"), ValueRef("rowType")>>,
              <<Attr("annotation"), ValueRef("annotation")>>,
              <<Attr("dateAddedToDynamo"), IfNotExists, Attr("dateAddedToDynamo"),
                ValueRef("dateAddedToDynamo")>>,
              <<Attr("dateModifiedInDynamo"), ValueRef("dateModifiedInDynamo")>>,
              <<Attr("description"), ValueRef("description")>>,
              <<Attr("imageUri"), ValueRef("imageUri")>>,
              <<Attr("internalItemId"), ValueRef("internalItemId")>>,
              <<Attr("itemType"), ValueRef("itemType")>>,
              <<NameRef("sequence"), ValueRef("sequence")>>,
              <<Attr("title"), ValueRef("title")>>,
              <<Attr("uri"), ValueRef("uri")>>>>
        values ==
            (ValueRef("portfolioItemId") :> toDynamoDB(originalPortfolioItemId))
            @@ (ValueRef("portfolioCollectionId") :> toDynamoDB(portfolioCollectionId))
            @@ (ValueRef("portfolioUserId") :> toDynamoDB(portfolioUserId))
            @@ (ValueRef("rowType") :> toDynamoDB(<<"PortfolioItem">>))
            @@ (ValueRef("annotation") :> toDynamoDB(args.annotation))
            @@ (ValueRef("dateAddedToDynamo") :> toDynamoDB(nowISO8601(t)))
            @@ (ValueRef("dateModifiedInDynamo") :> toDynamoDB(nowISO8601(t)))
            @@ (ValueRef("description") :> toDynamoDB(args.description))
            @@ (ValueRef("imageUri") :> toDynamoDB(args.imageUri))
            @@ (ValueRef("internalItemId") :> toDynamoDB(args.internalItemId))
            @@ (ValueRef("sequence") :> toDynamoDB(args.sequence))
            @@ (ValueRef("title") :> toDynamoDB(args.title))
            @@ (ValueRef("uri") :> toDynamoDB(args.uri))
            @@ (ValueRef("itemType") :> toDynamoDB(itemType))
        gsiValues ==
            (ValueRef("GSI1PK") :> toDynamoDB(GSI1PK))
            @@ (ValueRef("GSI1SK") :> toDynamoDB(GSI1SK))
    IN [operation |-> "UpdateItem",
        key |-> Key(pk, sk),
        update |->
          [expression |->
              IF external
              THEN <<Kw("SET")>> \o Assignments(common)
                   \o <<Kw("REMOVE"), Attr("GSI1PK"), Comma, Attr("GSI1SK")>>
              ELSE <<Kw("SET")>> \o Assignments(common \o
                       <<<<Attr("GSI1PK"), ValueRef("GSI1PK")>>,
                         <<Attr("GSI1SK"), ValueRef("GSI1SK")>>>>),
           expressionNames |->
              (NameRef("TYPE") :> "TYPE") @@ (NameRef("sequence") :> "sequence"),
           expressionValues |-> IF external THEN values ELSE values @@ gsiValues]]

PortfolioItemArgNames ==
    {"portfolioCollectionId", "portfolioItemId", "internalItemId", "uri",
     "itemType", "annotation", "description", "imageUri", "sequence", "title"}

SavePortfolioItem ==
    /\ \E portfolioCollectionId \in ScopeIdArgs, portfolioItemId \in IdArgs,
          internalItemId \in {Null, <<"b">>} :
           LET args == Args(PortfolioItemArgNames,
                            ("portfolioCollectionId" :> portfolioCollectionId)
                            @@ ("portfolioItemId" :> portfolioItemId)
                            @@ ("internalItemId" :> internalItemId))
               req == savePortfolioItemRequest(args, Caller, now, engine)
           IN UnitResolver("savePortfolioItem", args, Caller, <<>>, <<>>, req,
                           "dynamoDbResultItem")
    /\ UNCHANGED <<now, engine, pipeline>>
    /\ UNCHANGED rotVars
    /\ UNCHANGED cdVars

\* Query.getPortfolioItem
getPortfolioItemRequest(args, identity) ==
    LET portfolioUserId == identity.claims.netid
        portfolioCollectionId == Normalize(args.portfolioCollectionId)
        portfolioItemId == Normalize(args.portfolioItemId)
    IN [operation |-> "GetItem",
        key |-> Key(<<"PORTFOLIO">>,
                    toUpper(<<"USER#">> \o portfolioUserId \o <<"#">>
                            \o portfolioCollectionId \o <<"#">> \o portfolioItemId))]

GetPortfolioItem ==
    /\ \E portfolioCollectionId \in ScopeIdArgs, portfolioItemId \in IdArgs :
           LET args == ("portfolioCollectionId" :> portfolioCollectionId)
                       @@ ("portfolioItemId" :> portfolioItemId)
           IN UnitResolver("getPortfolioItem", args, Caller, <<>>, <<>>,
                           getPortfolioItemRequest(args, Caller), "dynamoDbResultItem")
    /\ UNCHANGED <<now, engine, pipeline>>
    /\ UNCHANGED rotVars
    /\ UNCHANGED cdVars

\* Mutation.removePortfolioItem
removePortfolioItemRequest(args, identity) ==
    LET portfolioUserId == identity.claims.netid
        portfolioCollectionId == Normalize(args.portfolioCollectionId)
        portfolioItemId == Normalize(args.portfolioItemId)
        pk == <<"PORTFOLIO">>
        sk == <<"USER#">> \o toUpper(portfolioUserId) \o <<"#">>
              \o portfolioCollectionId \o <<"#">> \o portfolioItemId
    IN [operation |-> "DeleteItem", key |-> Key(pk, sk)]

RemovePortfolioItem ==
    /\ \E portfolioCollectionId \in ScopeIdArgs, portfolioItemId \in IdArgs :
           LET args == ("portfolioCollectionId" :> portfolioCollectionId)
                       @@ ("portfolioItemId" :> portfolioItemId)
           IN UnitResolver("removePortfolioItem", args, Caller, <<>>, <<>>,
                           removePortfolioItemRequest(args, Caller), "dynamoDbResultItem")
    /\ UNCHANGED <<now, engine, pipeline>>
    /\ UNCHANGED rotVars
    /\ UNCHANGED cdVars

\* the requests whose keys are built from id arguments
InitKeys ==
    /\ RotationDeployed
    /\ PipelineDeployed
    /\ ApiDeployed
    /\ engine \in {e \in Engines : ~e.setAssignsNull}

NextKeys ==
    \/ AddItemToWebsite
    \/ RemoveItemFromWebsite
    \/ GetWebsite
    \/ ListItemsByWebsite
    \/ SavePortfolioItem
    \/ GetPortfolioItem
    \/ RemovePortfolioItem

SpecKeys == InitKeys /\ [][NextKeys]_vars

(***************************************************************************)
(* The SupplementalData record and the mutations that save to it.          *)
(***************************************************************************)
\* $util.isNull
isNullNever(v) == FALSE

isNull(v) == v = Null

\* $util.map.copyAndRemoveAllKeys
copyAndRemoveAllKeys(map, keys) == Without(map, keys)

\* entrySet(): the entries of a map in the order the map keeps them, which
\* the templates do not depend on
RECURSIVE KeySeq(_)
KeySeq(S) ==
    IF S = {} THEN <<>>
    ELSE LET k == CHOOSE x \in S : TRUE IN <<k>> \o KeySeq(S \ {k})

\* "#a, #b, ...": the tokens of a list of paths
RECURSIVE Paths(_)
Paths(list) ==
    IF list = <<>> THEN <<>>
    ELSE <<Head(list)>> \o (IF Tail(list) = <<>> THEN <<>> ELSE <<Comma>>)
         \o Paths(Tail(list))

\* the loop over the arguments: what it leaves in $expNames, $expValues,
\* $expSet and $expRemove
RECURSIVE ForEachArgument(_, _, _)
ForEachArgument(keys, args, exp) ==
    IF keys = <<>> THEN exp
    ELSE LET key == Head(keys)
         IN ForEachArgument(Tail(keys), args,
              IF isNull(args[key])
              THEN [exp EXCEPT
                      !.expRemove = Append(@, NameRef(key)),
                      !.expNames = Put(@, NameRef(key), key)]
              ELSE [exp EXCEPT
                      !.expSet = Put(@, NameRef(key), ValueRef(key)),
                      !.expNames = Put(@, NameRef(key), key),
                      !.expValues = Put(@, ValueRef(key), toDynamoDB(args[key]))])

\* the "update" of the request: the expression with its names and values
BuildUpdate(args, t) ==
    LET exp == ForEachArgument(KeySeq(DOMAIN args), args,
                   [expNames |-> <<>>, expValues |-> <<>>, expSet |-> <<>>,
                    expRemove |-> <<>>])
        sets == KeySeq(DOMAIN exp.expSet)
        setClause ==
            IF exp.expSet = <<>> THEN <<>>
            ELSE <<Kw("SET")>>
                 \o Assignments([i \in 1..Len(sets) |-> <<sets[i], exp.expSet[sets[i]]>>])
                 \o <<Comma, Attr("dateAddedToDynamo"), Eq, IfNotExists,
                      Attr("dateAddedToDynamo"), ValueRef("dateAddedToDynamo")>>
        removeClause ==
            IF exp.expRemove = <<>> THEN <<>>
            ELSE <<Kw("REMOVE")>> \o Paths(exp.expRemove)
    IN [expression |-> setClause \o removeClause,
        expressionNames |-> exp.expNames,
        expressionValues |->
            IF exp.expSet = <<>> THEN exp.expValues
            ELSE Put(exp.expValues, ValueRef("dateAddedToDynamo"),
                     toDynamoDB(nowISO8601(t)))]

\* updateSupplementalDataRecordFunction, request: the request and the stash,
\* whose supplementalDataArgs the template changes in place.  (No resolver of
\* the stack puts expectedVersion, so the request has no condition.)
updateSupplementalDataRecordRequest(stash, t) ==
    LET given == stash.supplementalDataArgs
        idNotUpper == defaultIfNullOrBlank(given.itemId, <<>>)
        id == toReplace(toUpper(idNotUpper))
        websiteIdNotUpper == defaultIfNullOrBlank(given.websiteId, <<"A", "l", "l">>)
        websiteId == toReplace(toUpper(websiteIdNotUpper))
        pk == <<"ITEM#">> \o id
        sk == <<"SUPPLEMENTALDATA#">> \o websiteId
        args == Put(Put(Put(Put(Put(Put(given,
                    "TYPE", <<"SupplementalData">>),
                    "dateModifiedInDynamo", nowISO8601(t)),
                    "GSI1PK", <<"SUPPLEMENTALDATA">>),
                    "GSI1SK", <<"ITEM#">> \o id),
                    "id", idNotUpper),
                    "websiteId", websiteIdNotUpper)
    IN [request |->
          [operation |-> "UpdateItem",
           key |-> Key(pk, sk),
           update |-> BuildUpdate(
               copyAndRemoveAllKeys(args, {"itemId", "expectedVersion"}), t)],
        stash |-> Put(stash, "supplementalDataArgs", args)]

\* #if($ctx.error) $util.error($ctx.error.message, $ctx.error.type) #end
\* followed by the rest of the template
ErrorIgnored(c, rest) == rest

RaiseOnError(c, rest) ==
    IF c.error # Null THEN FieldError(c.error.message, c.error.type) ELSE rest

\* updateSupplementalDataRecordFunction, response
updateSupplementalDataRecordResponse(c) == RaiseOnError(c, Answer(c.result))

\* A function of a pipeline: its request goes to DynamoDB and its response
\* template is evaluated on what came back.  built is what the request
\* template leaves: the request and the stash.
FunctionCall(c, built, t) ==
    LET did == Execute(built.request, t)
        after == [c EXCEPT !.stash = built.stash, !.result = did.result,
                           !.error = did.error]
    IN [ddb |-> built.request, table |-> did.table, ctx |-> after]

\* a pipeline resolver of one function whose response template is
\* dynamoDbResultItem(): a field error of the function ends the pipeline
PipelineOfOne(call, out) ==
    /\ WithinBound(call.ddb)
    /\ ddb' = call.ddb
    /\ table' = call.table
    /\ ctx' = call.ctx
    /\ response' = IF out.error # Null THEN out
                   ELSE dynamoDbResultItem([call.ctx EXCEPT !.result = out.data])

\* what the save...ForWebsite mutations are called with
SupplementItemIds == {<<"a">>}

SupplementWebsiteIds == {Null, <<"a", "l", "l">>}

TextArgs == {Null, <<" ">>, <<"x">>, <<"y">>}

NameArgs == {Null, <<"x">>}

BooleanArgs == {Null, VTrue, VFalse}

\* what the four request templates put in the stash before the function runs
SaveStash(args, supplementalDataArgs) ==
    ("itemId" :> args.itemId) @@ ("websiteId" :> args.websiteId)
    @@ ("supplementalDataArgs" :>
          (("itemId" :> args.itemId) @@ ("websiteId" :> args.websiteId)
           @@ supplementalDataArgs))

SaveForWebsite(field, args, supplementalDataArgs) ==
    \E call \in {FunctionCall(
                    Context(field, args, Null, <<>>, <<>>, Null, Null),
                    updateSupplementalDataRecordRequest(
                        SaveStash(args, supplementalDataArgs), now),
                    table)} :
        PipelineOfOne(call, updateSupplementalDataRecordResponse(call.ctx))

\* Mutation.saveAdditionalNotesForWebsite
SaveAdditionalNotesForWebsite ==
    /\ \E itemId \in SupplementItemIds, websiteId \in SupplementWebsiteIds,
          additionalNotes \in TextArgs :
           SaveForWebsite("saveAdditionalNotesForWebsite",
               ("itemId" :> itemId) @@ ("websiteId" :> websiteId)
               @@ ("additionalNotes" :> additionalNotes),
               "additionalNotes" :> defaultIfNullOrBlank(additionalNotes, Null))
    /\ UNCHANGED <<now, engine, pipeline>>
    /\ UNCHANGED rotVars
    /\ UNCHANGED cdVars

\* #if(!$ctx.args.inCopyright): null and false alike
copyrightStatusOf(inCopyright) ==
    IF inCopyright = VTrue THEN <<"Copyright">> ELSE <<"not in copyright">>

\* Mutation.saveCopyrightForWebsite
SaveCopyrightForWebsite ==
    /\ \E itemId \in SupplementItemIds, websiteId \in SupplementWebsiteIds,
          copyrightStatement \in NameArgs, inCopyright \in BooleanArgs :
           SaveForWebsite("saveCopyrightForWebsite",
               ("itemId" :> itemId) @@ ("websiteId" :> websiteId)
               @@ ("copyrightStatement" :> copyrightStatement)
               @@ ("inCopyright" :> inCopyright),
               ("copyrightStatement" :> defaultIfNullOrBlank(copyrightStatement, Null))
               @@ ("copyrightStatus" :> copyrightStatusOf(inCopyright))
               @@ ("inCopyright" :> inCopyright))
    /\ UNCHANGED <<now, engine, pipeline>>
    /\ UNCHANGED rotVars
    /\ UNCHANGED cdVars

\* Mutation.saveDefaultImageForWebsite
SaveDefaultImageForWebsite ==
    /\ \E itemId \in SupplementItemIds, websiteId \in SupplementWebsiteIds,
          defaultFilePath \in NameArgs, objectFileGroupId \in NameArgs :
           SaveForWebsite("saveDefaultImageForWebsite",
               ("itemId" :> itemId) @@ ("websiteId" :> websiteId)
               @@ ("defaultFilePath" :> defaultFilePath)
               @@ ("objectFileGroupId" :> objectFileGroupId),
               ("defaultFilePath" :> defaultIfNullOrBlank(defaultFilePath, Null))
               @@ ("objectFileGroupId" :> defaultIfNullOrBlank(objectFileGroupId, Null)))
    /\ UNCHANGED <<now, engine, pipeline>>
    /\ UNCHANGED rotVars
    /\ UNCHANGED cdVars

\* Mutation.savePartiallyDigitizedForWebsite
SavePartiallyDigitizedForWebsite ==
    /\ \E itemId \in SupplementItemIds, websiteId \in SupplementWebsiteIds,
          partiallyDigitized \in BooleanArgs :
           SaveForWebsite("savePartiallyDigitizedForWebsite",
               ("itemId" :> itemId) @@ ("websiteId" :> websiteId)
               @@ ("partiallyDigitized" :> partiallyDigitized),
               "partiallyDigitized" :> partiallyDigitized)
    /\ UNCHANGED <<now, engine, pipeline>>
    /\ UNCHANGED rotVars
    /\ UNCHANGED cdVars

\* (these templates use nothing the engines differ in)
InitUpdate ==
    /\ RotationDeployed
    /\ PipelineDeployed
    /\ ApiDeployed
    /\ engine = [setAssignsNull |-> FALSE, emptyIsFalse |-> FALSE]

NextUpdate ==
    \/ SaveAdditionalNotesForWebsite
    \/ SaveCopyrightForWebsite
    \/ SaveDefaultImageForWebsite
    \/ SavePartiallyDigitizedForWebsite

SpecUpdate == InitUpdate /\ [][NextUpdate]_vars

(***************************************************************************)
(* The merged item record: getMergedItemRecordFunction and                 *)
(* expandSubjectTermsFunction, and the resolvers whose pipeline they are.  *)
(***************************************************************************)
\* #set($v = new): whether a null right-hand side is assigned is the engine's
Assign(old, new, eng) == IF new = Null /\ ~eng.setAssignsNull THEN old ELSE new

\* getMergedItemRecordFunction, request: the request and the stash.  $is is
\* a reference nothing defines, and $util has no method defaultIfNullOrBland:
\* both evaluate to null.
getMergedItemRecordRequest(c, eng) ==
    LET id1 == Assign(Null, defaultIfNullOrBlank(Get(c.stash, "itemId"),
                                                 Get(c.source, "itemId")), eng)
        id2 == Assign(id1, defaultIfNullOrBlank(id1, Get(c.source, "id")), eng)
        id3 == Assign(id2, defaultIfNullOrBlank(Null,
                               Get(c.source, "itemMetadataId")), eng)
        id4 == Assign(id3, defaultIfNullOrBlank(id3, <<>>), eng)
        web1 == Assign(Null, defaultIfNullOrBlank(Get(c.stash, "websiteId"),
                                 Get(c.source, "suppliedWebsiteId")), eng)
        suppliedWebsiteId == Assign(web1, Null, eng)
        id == toReplace(toUpper(defaultIfNullOrBlank(id4, <<>>)))
        pk == <<"ITEM#">> \o id
    IN [request |-> [operation |-> "Query", query |-> [pk |-> pk]],
        stash |-> Put(c.stash, "suppliedWebsiteId", suppliedWebsiteId)]

\* the attributes of a record that are not copied from it
KeyAttributes ==
    {"PK", "SK", "TYPE", "GSI1PK", "GSI1SK", "GSI2PK", "GSI2SK",
     "dateAddedToDynamo", "dateModifiedInDynamo"}

\* #foreach( $entry in ... ) #set($results[$entry.key] = $entry.value)
Overlay(results, entries) ==
    [k \in DOMAIN results \cup DOMAIN entries |->
        IF k \in DOMAIN entries THEN entries[k] ELSE results[k]]

\* the condition of the #elseif for a SupplementalData record
ContributesAlways(item, suppliedWebsiteId) == TRUE

Contributes(item, suppliedWebsiteId) ==
    LET websiteInRecord ==
            toUpper(defaultIfNullOrBlank(Get(item, "websiteId"), <<>>))
    IN /\ Get(item, "TYPE") = <<"SupplementalData">>
       /\ suppliedWebsiteId = websiteInRecord \/ websiteInRecord = <<"A", "L", "L">>

\* the loop over $context.result.items
RECURSIVE MergeItems(_, _, _, _)
MergeItems(items, results, suppliedWebsiteId, eng) ==
    IF items = <<>> THEN results
    ELSE LET item == Head(items)
             merged ==
                 IF Get(item, "TYPE") = <<"Item">>
                 THEN Put(item, "suppliedWebsiteId", suppliedWebsiteId)
                 ELSE IF Get(item, "TYPE") = <<"ParentOverride">>
                 THEN IF Get(item, "parentId") = Null /\ ~eng.setAssignsNull
                      THEN results
                      ELSE Put(results, "parentId", Get(item, "parentId"))
                 ELSE IF Contributes(item, suppliedWebsiteId)
                 THEN Overlay(results, copyAndRemoveAllKeys(item, KeyAttributes))
                 ELSE results
         IN MergeItems(Tail(items), merged, suppliedWebsiteId, eng)

\* getMergedItemRecordFunction, response ($results is also stashed as
\* itemRecord)
getMergedItemRecordResponse(c, eng) ==
    RaiseOnError(c,
        Answer(MergeItems(IF c.result = Null THEN <<>> ELSE c.result.items, <<>>,
                   toUpper(defaultIfNullOrBlank(
                       Get(c.stash, "suppliedWebsiteId"), <<>>)), eng)))

\* the loop of expandSubjectTermsFunction's request: $uriList
RECURSIVE UriList(_, _)
UriList(subjects, uriList) ==
    IF subjects = <<>> THEN uriList
    ELSE LET uri == toUpper(defaultIfNullOrBlank(Get(Head(subjects), "uri"), <<>>))
         IN UriList(Tail(subjects),
                IF uri # <<>> /\ \A i \in 1..Len(uriList) : uriList[i] # uri
                THEN Append(uriList, uri) ELSE uriList)

\* expandSubjectTermsFunction, request: the request and the stash
expandSubjectTermsRequest(c) ==
    LET subjects == Get(Get(c.stash, "itemRecord"), "subjects")
        uriList == UriList(Elements(subjects), <<>>)
        keys == [i \in 1..Len(uriList) |->
                    Key(<<"SUBJECTTERM">>, <<"URI#">> \o uriList[i])]
    IN [request |->
          [operation |-> "BatchGetItem",
           keys |-> IF keys # <<>> THEN keys
                    ELSE <<Key(<<"NoKeyToFind">>, <<"YieldEmptyResultSet">>)>>],
        stash |-> Put(Put(Put(c.stash,
                    "subjectsBefore", subjects),
                    "uriList", List(uriList)),
                    "queryAttempted", IF keys # <<>> THEN <<"1">> ELSE <<"0">>)]

\* the subjects of $ctx.stash.subjectsBefore the response adds: those
\* without a uri.  For one with a uri the template loops over
\* $ctx.stash.subjectsAfter, which nothing stashes, and so adds nothing.
RECURSIVE SubjectsNotQueried(_)
SubjectsNotQueried(subjects) ==
    IF subjects = <<>> THEN <<>>
    ELSE (IF defaultIfNullOrBlank(Get(Head(subjects), "uri"), <<>>) = <<>>
          THEN <<Head(subjects)>> ELSE <<>>)
         \o SubjectsNotQueried(Tail(subjects))

\* expandSubjectTermsFunction, response
expandSubjectTermsResponse(c) ==
    LET found == IF Get(c.stash, "queryAttempted") = <<"1">>
                 THEN Elements(Get(c.result, "data")) ELSE <<>>
        subjectsAfter ==
            [i \in 1..Len(found) |-> copyAndRemoveAllKeys(found[i], KeyAttributes)]
            \o SubjectsNotQueried(Elements(Get(c.stash, "subjectsBefore")))
    IN RaiseOnError(c,
           Answer(Put(Get(c.stash, "itemRecord"), "subjects", List(subjectsAfter))))

MergedPipeline == <<"getMergedItemRecordFunction", "expandSubjectTermsFunction">>

\* a pipeline resolver starts: its request template has filled the stash
Begin(field, arguments, source, stash) ==
    /\ pipeline = <<>>
    /\ pipeline' = MergedPipeline
    /\ ctx' = Context(field, arguments, Null, source, stash, Null, Null)
    /\ ddb' = NoRequest
    /\ response' = Answer(Null)
    /\ UNCHANGED table

\* a function of the pipeline has run: a field error ends the pipeline, and
\* after the last function the resolver answers with dynamoDbResultItem()
Continue(request, did, c, out) ==
    /\ ddb' = request
    /\ table' = did.table
    /\ ctx' = c
    /\ pipeline' = IF out.error # Null THEN <<>> ELSE Tail(pipeline)
    /\ response' = IF out.error # Null THEN out
                   ELSE IF Tail(pipeline) = <<>>
                   THEN dynamoDbResultItem([c EXCEPT !.result = out.data])
                   ELSE response

GetMergedItemRecordFunction ==
    /\ pipeline # <<>>
    /\ Head(pipeline) = "getMergedItemRecordFunction"
    /\ \E built \in {getMergedItemRecordRequest(ctx, engine)} :
         \E did \in {Execute(built.request, table)} :
           \E c \in {[ctx EXCEPT !.stash = built.stash, !.result = did.result,
                                 !.error = did.error]} :
             \E out \in {getMergedItemRecordResponse(c, engine)} :
               Continue(built.request, did,
                        IF out.error # Null THEN c
                        ELSE [c EXCEPT !.stash = Put(@, "itemRecord", out.data)],
                        out)
    /\ UNCHANGED <<now, engine>>
    /\ UNCHANGED rotVars
    /\ UNCHANGED cdVars

ExpandSubjectTermsFunction ==
    /\ pipeline # <<>>
    /\ Head(pipeline) = "expandSubjectTermsFunction"
    /\ \E built \in {expandSubjectTermsRequest(ctx)} :
         \E did \in {Execute(built.request, table)} :
           \E c \in {[ctx EXCEPT !.stash = built.stash, !.result = did.result,
                                 !.error = did.error]} :
             \E out \in {expandSubjectTermsResponse(c)} :
               Continue(built.request, did,
                        IF out.error # Null THEN c
                        ELSE [c EXCEPT !.stash = Put(@, "itemRecord", out.data)],
                        out)
    /\ UNCHANGED <<now, engine>>
    /\ UNCHANGED rotVars
    /\ UNCHANGED cdVars

\* what the item queries are called with
MergedItemIds == {Null, <<"a">>, <<"A", " ">>, <<"b">>}

MergedWebsiteIds == {Null, <<"w">>, <<"W">>, <<"b">>}

\* Query.getItem
GetItem ==
    /\ \E id \in MergedItemIds, websiteId \in MergedWebsiteIds :
         LET args == ("id" :> id) @@ ("websiteId" :> websiteId)
         IN Begin("getItem", args, Null,
                  ("itemId" :> args.id)
                  @@ ("websiteId" :> defaultIfNullOrBlank(args.websiteId, <<>>)))
    /\ UNCHANGED <<now, engine>>
    /\ UNCHANGED rotVars
    /\ UNCHANGED cdVars

\* Query.showItemByWebsite
ShowItemByWebsite ==
    /\ \E itemId \in MergedItemIds, websiteId \in MergedWebsiteIds :
         LET args == ("itemId" :> itemId) @@ ("websiteId" :> websiteId)
         IN Begin("showItemByWebsite", args, Null,
                  ("itemId" :> args.itemId) @@ ("websiteId" :> args.websiteId))
    /\ UNCHANGED <<now, engine>>
    /\ UNCHANGED rotVars
    /\ UNCHANGED cdVars

\* the fields that answer with a merged item record
MergedFields == {"getItem", "showItemByWebsite", "parent", "ItemMetadata"}

\* ItemMetadata.parent: the field of an item record a query has answered with
ItemMetadataParent ==
    /\ ctx.field \in MergedFields
    /\ response.data # Null
    /\ Begin("parent", <<>>, response.data,
             ("itemId" :> Get(response.data, "parentId"))
             @@ ("websiteId" :> Get(response.data, "suppliedWebsiteId")))
    /\ UNCHANGED <<now, engine>>
    /\ UNCHANGED rotVars
    /\ UNCHANGED cdVars

\* the WebsiteItem records a client may hold: the one addItemToWebsite
\* writes, and ones that name their item by itemMetadataId, as they did
\* before (with and without itemId)
WebsiteItemSources ==
    LET args == Args({"itemId", "websiteId"},
                     ("itemId" :> <<"a">>) @@ ("websiteId" :> <<"w">>))
        written == Execute(addItemToWebsiteRequest(args, 0), <<>>).result
    IN {written,
        Put(written, "itemMetadataId", <<"b">>),
        Put(Without(written, {"itemId", "id"}), "itemMetadataId", <<"b">>)}

\* WebsiteItem.ItemMetadata
WebsiteItemItemMetadata ==
    /\ \E source \in WebsiteItemSources :
         Begin("ItemMetadata", <<>>, source,
               ("itemId" :> Get(source, "itemId"))
               @@ ("websiteId" :> Get(source, "websiteId")))
    /\ UNCHANGED <<now, engine>>
    /\ UNCHANGED rotVars
    /\ UNCHANGED cdVars

\* The records of the table that other parts of the system write (the stack
\* has no resolver that writes an Item, a ParentOverride or a SubjectTerm):
\* an Item has its PK as its SK, so that the query returns it first.
Subject(term, uri) == ("term" :> term) @@ ("uri" :> uri)

ItemRecord(id, more) ==
    ("PK" :> <<"ITEM#">> \o Normalize(id)) @@ ("SK" :> <<"ITEM#">> \o Normalize(id))
    @@ ("TYPE" :> <<"Item">>) @@ ("id" :> id) @@ ("title" :> <<"x">>)
    @@ ("dateModifiedInDynamo" :> nowISO8601(0)) @@ more

ItemA ==
    ItemRecord(<<"a">>,
        ("parentId" :> <<"b">>)
        @@ ("subjects" :> List(<<"term" :> <<"x">>, Subject(<<"y">>, <<"u">>)>>)))

ItemB == ItemRecord(<<"b">>, <<>>)

ParentOverrideA ==
    ("PK" :> <<"ITEM#", "A">>) @@ ("SK" :> <<"PARENTOVERRIDE">>)
    @@ ("TYPE" :> <<"ParentOverride">>) @@ ("parentId" :> <<"n">>)

SubjectTermU ==
    ("PK" :> <<"SUBJECTTERM">>) @@ ("SK" :> <<"URI#", "U">>)
    @@ ("TYPE" :> <<"SubjectTerm">>) @@ ("uri" :> <<"u">>)
    @@ ("term" :> <<"y">>) @@ ("description" :> <<"x">>)

\* the table after a save...ForWebsite mutation
Saved(t, websiteId, supplementalDataArgs) ==
    LET args == ("itemId" :> <<"a">>) @@ ("websiteId" :> websiteId)
    IN Execute(updateSupplementalDataRecordRequest(
                   SaveStash(args, supplementalDataArgs), 0).request, t).table

\* the tables the item queries run on: the records above, and the
\* SupplementalData records of item a for all websites, for website w and
\* for website b, each there or not
MergedTables ==
    LET base == TablePut(TablePut(<<>>, ItemB), SubjectTermU)
        Table(item, po, all, w, b) ==
            LET t1 == IF item THEN TablePut(base, ItemA) ELSE base
                t2 == IF po THEN TablePut(t1, ParentOverrideA) ELSE t1
                t3 == IF all
                      THEN Saved(Saved(t2, Null, "additionalNotes" :> <<"x">>),
                                 Null,
                                 ("copyrightStatement" :> Null)
                                 @@ ("copyrightStatus" :> <<"Copyright">>)
                                 @@ ("inCopyright" :> VTrue))
                      ELSE t2
                t4 == IF w THEN Saved(t3, <<"w">>, "additionalNotes" :> <<"y">>)
                      ELSE t3
            IN IF b THEN Saved(t4, <<"b">>, "partiallyDigitized" :> VTrue) ELSE t4
    IN {Table(TRUE, po, all, w, b) : po \in BOOLEAN, all \in BOOLEAN,
                                     w \in BOOLEAN, b \in BOOLEAN}
       \cup {Table(FALSE, TRUE, TRUE, TRUE, TRUE)}

InitMerged ==
    /\ RotationDeployed
    /\ PipelineDeployed
    /\ ApiIdle
    /\ table \in MergedTables
    /\ engine \in {e \in Engines : ~e.emptyIsFalse}

NextMerged ==
    \/ GetItem
    \/ ShowItemByWebsite
    \/ ItemMetadataParent
    \/ WebsiteItemItemMetadata
    \/ GetMergedItemRecordFunction
    \/ ExpandSubjectTermsFunction

SpecMerged == InitMerged /\ [][NextMerged]_vars

(***************************************************************************)
(* Supplemental data saved for a website and read back in the merged item  *)
(* record.                                                                 *)
(***************************************************************************)
\* the websites supplemental data is saved for: none, blank, w, and all
\* given by name
SavedWebsiteIds == {Null, <<" ">>, <<"w">>, <<"a", "l", "l">>}

\* Mutation.saveAdditionalNotesForWebsite, for any of these websites
SaveAdditionalNotesForAnyWebsite ==
    /\ pipeline = <<>>
    /\ \E itemId \in SupplementItemIds, websiteId \in SavedWebsiteIds,
          additionalNotes \in NameArgs :
           SaveForWebsite("saveAdditionalNotesForWebsite",
               ("itemId" :> itemId) @@ ("websiteId" :> websiteId)
               @@ ("additionalNotes" :> additionalNotes),
               "additionalNotes" :> defaultIfNullOrBlank(additionalNotes, Null))
    /\ UNCHANGED <<now, engine, pipeline>>
    /\ UNCHANGED rotVars
    /\ UNCHANGED cdVars

\* Mutation.savePartiallyDigitizedForWebsite, for any of these websites
SavePartiallyDigitizedForAnyWebsite ==
    /\ pipeline = <<>>
    /\ \E itemId \in SupplementItemIds, websiteId \in SavedWebsiteIds,
          partiallyDigitized \in {VTrue, VFalse} :
           SaveForWebsite("savePartiallyDigitizedForWebsite",
               ("itemId" :> itemId) @@ ("websiteId" :> websiteId)
               @@ ("partiallyDigitized" :> partiallyDigitized),
               "partiallyDigitized" :> partiallyDigitized)
    /\ UNCHANGED <<now, engine, pipeline>>
    /\ UNCHANGED rotVars
    /\ UNCHANGED cdVars

\* the item is there, or it is not (yet)
InitSupplement ==
    /\ RotationDeployed
    /\ PipelineDeployed
    /\ ApiIdle
    /\ table \in {<<>>, TablePut(<<>>, ItemA)}
    /\ engine \in {e \in Engines : ~e.emptyIsFalse}

NextSupplement ==
    \/ SaveAdditionalNotesForAnyWebsite
    \/ SavePartiallyDigitizedForAnyWebsite
    \/ GetItem
    \/ ShowItemByWebsite
    \/ GetMergedItemRecordFunction
    \/ ExpandSubjectTermsFunction

SpecSupplement == InitSupplement /\ [][NextSupplement]_vars

(***************************************************************************)
(* The records that carry dateAddedToDynamo and dateModifiedInDynamo, saved *)
(* as time passes.                                                         *)
(***************************************************************************)
\* $util.isBoolean
isBoolean(v) == v \in {VTrue, VFalse}

\* $ctx.identity.claims.name: null where the token has no such claim
Claim(identity, name) ==
    IF name \in DOMAIN identity.claims THEN identity.claims[name] ELSE Null

\* Mutation.savePortfolioUser
savePortfolioUserRequest(args, identity, t) ==
    LET portfolioUserId == identity.claims.netid
        fullName == defaultIfNullOrBlank(args.fullName, Claim(identity, "name"))
        email == defaultIfNullOrBlank(args.email, Claim(identity, "email"))
        primaryAffiliation == Claim(identity, "primary_affiliation")
        department == Claim(identity, "department")
        pk == <<"PORTFOLIO">>
        sk == <<"USER#">> \o toUpper(portfolioUserId)
    IN [operation |-> "UpdateItem",
        key |-> Key(pk, sk),
        update |->
          [expression |->
              <<Kw("SET")>> \o Assignments(
                <<<<Attr("portfolioUserId"), ValueRef("portfolioUserId")>>,
                  <<Attr("bio"), ValueRef("bio")>>,
                  <<NameRef("TYPE"), ValueRef("rowType")>>,
                  <<Attr("dateAddedToDynamo"), IfNotExists,
                    Attr("dateAddedToDynamo"), ValueRef("dateAddedToDynamo")>>,
                  <<Attr("dateModifiedInDynamo"), ValueRef("dateModifiedInDynamo")>>,
                  <<Attr("department"), ValueRef("department")>>,
                  <<Attr("email"), ValueRef("email")>>,
                  <<Attr("fullName"), ValueRef("fullName")>>,
                  <<Attr("primaryAffiliation"), ValueRef("primaryAffiliation")>>>>),
           expressionNames |-> NameRef("TYPE") :> "TYPE",
           expressionValues |->
              (ValueRef("portfolioUserId") :> toDynamoDB(portfolioUserId))
              @@ (ValueRef("bio") :> toDynamoDB(args.bio))
              @@ (ValueRef("rowType") :> toDynamoDB(<<"PortfolioUser">>))
              @@ (ValueRef("dateAddedToDynamo") :> toDynamoDB(nowISO8601(t)))
              @@ (ValueRef("dateModifiedInDynamo") :> toDynamoDB(nowISO8601(t)))
              @@ (ValueRef("department") :> toDynamoDB(department))
              @@ (ValueRef("email") :> toDynamoDB(email))
              @@ (ValueRef("fullName") :> toDynamoDB(fullName))
              @@ (ValueRef("primaryAffiliation") :> toDynamoDB(primaryAffiliation))]]

\* Mutation.savePortfolioCollection
savePortfolioCollectionRequest(args, identity, t) ==
    LET portfolioUserId == identity.claims.netid
        portfolioCollectionId ==
            Normalize(defaultIfNullOrBlank(args.portfolioCollectionId, autoId))
        privacy == defaultIfNullOrBlank(args.privacy, <<"private">>)
        public == privacy = <<"public">>
        featuredCollection ==
            IF public /\ isBoolean(args.featuredCollection)
            THEN args.featuredCollection ELSE VFalse
        highlightedCollection ==
            IF public /\ isBoolean(args.highlightedCollection)
            THEN args.highlightedCollection ELSE VFalse
        layout == defaultIfNullOrBlank(args.layout, <<"default">>)
        pk == <<"PORTFOLIO">>
        sk == toUpper(<<"USER#">> \o portfolioUserId \o <<"#">> \o portfolioCollectionId)
        private == privacy = <<"private">>
        common ==
            <<<<Attr("portfolioCollectionId"), ValueRef("portfolioCollectionId")>>,
              <<Attr("portfolioUserId"), ValueRef("portfolioUserId")>>,
              <<NameRef("TYPE"), ValueRef("rowType")>>,
              <<Attr("dateAddedToDynamo"), IfNotExists, Attr("dateAddedToDynamo"),
                ValueRef("dateAddedToDynamo")>>,
              <<Attr("dateModifiedInDynamo"), ValueRef("dateModifiedInDynamo")>>,
              <<Attr("description"), ValueRef("description")>>,
              <<Attr("imageUri"), ValueRef("imageUri")>>,
              <<Attr("featuredCollection"), ValueRef("featuredCollection")>>,
              <<Attr("highlightedCollection"), ValueRef("highlightedCollection")>>,
              <<Attr("layout"), ValueRef("layout")>>,
              <<Attr("privacy"), ValueRef("privacy")>>>>
        values ==
            (ValueRef("portfolioCollectionId") :> toDynamoDB(portfolioCollectionId))
            @@ (ValueRef("portfolioUserId") :> toDynamoDB(portfolioUserId))
            @@ (ValueRef("rowType") :> toDynamoDB(<<"PortfolioCollection">>))
            @@ (ValueRef("dateAddedToDynamo") :> toDynamoDB(nowISO8601(t)))
            @@ (ValueRef("dateModifiedInDynamo") :> toDynamoDB(nowISO8601(t)))
            @@ (ValueRef("description") :> toDynamoDB(args.description))
            @@ (ValueRef("imageUri") :> toDynamoDB(args.imageUri))
            @@ (ValueRef("featuredCollection") :> toDynamoDB(featuredCollection))
            @@ (ValueRef("highlightedCollection") :> toDynamoDB(highlightedCollection))
            @@ (ValueRef("layout") :> toDynamoDB(layout))
            @@ (ValueRef("privacy") :> toDynamoDB(privacy))
        gsiValues ==
            (ValueRef("GSI1PK") :> toDynamoDB(<<"PORTFOLIOCOLLECTION">>))
            @@ (ValueRef("GSI1SK") :>
                  toDynamoDB(<<"PORTFOLIOCOLLECTION#">> \o toUpper(portfolioCollectionId)))
            @@ (ValueRef("GSI2PK") :> toDynamoDB(<<"PORTFOLIOCOLLECTION">>))
            @@ (ValueRef("GSI2SK") :>
                  toDynamoDB(toUpper(privacy \o <<"#">> \o portfolioCollectionId)))
    IN [operation |-> "UpdateItem",
        key |-> Key(pk, sk),
        update |->
          [expression |->
              IF private
              THEN <<Kw("SET")>> \o Assignments(common)
                   \o <<Kw("REMOVE"), Attr("GSI1PK"), Comma, Attr("GSI1SK"), Comma,
                        Attr("GSI2PK"), Comma, Attr("GSI2SK")>>
              ELSE <<Kw("SET")>> \o Assignments(common \o
                       <<<<Attr("GSI1PK"), ValueRef("GSI1PK")>>,
                         <<Attr("GSI1SK"), ValueRef("GSI1SK")>>,
                         <<Attr("GSI2PK"), ValueRef("GSI2PK")>>,
                         <<Attr("GSI2SK"), ValueRef("GSI2SK")>>>>),
           expressionNames |-> NameRef("TYPE") :> "TYPE",
           expressionValues |-> IF private THEN values ELSE values @@ gsiValues]]

PortfolioUserArgNames == {"fullName", "email", "bio"}

\* Mutation.savePortfolioUser
SavePortfolioUser ==
    /\ pipeline = <<>>
    /\ \E bio \in NameArgs :
           LET args == Args(PortfolioUserArgNames, "bio" :> bio)
           IN UnitResolver("savePortfolioUser", args, Caller, <<>>, <<>>,
                           savePortfolioUserRequest(args, Caller, now),
                           "dynamoDbResultItem")
    /\ UNCHANGED <<now, engine, pipeline>>
    /\ UNCHANGED rotVars
    /\ UNCHANGED cdVars

PortfolioCollectionArgNames ==
    {"portfolioCollectionId", "privacy", "featuredCollection",
     "highlightedCollection", "layout", "description", "imageUri"}

\* Mutation.savePortfolioCollection
SavePortfolioCollection ==
    /\ pipeline = <<>>
    /\ \E portfolioCollectionId \in {Null, <<"a">>},
          privacy \in {Null, <<"public">>}, featuredCollection \in {Null, VTrue} :
           LET args == Args(PortfolioCollectionArgNames,
                            ("portfolioCollectionId" :> portfolioCollectionId)
                            @@ ("privacy" :> privacy)
                            @@ ("featuredCollection" :> featuredCollection))
           IN UnitResolver("savePortfolioCollection", args, Caller, <<>>, <<>>,
                           savePortfolioCollectionRequest(args, Caller, now),
                           "dynamoDbResultItem")
    /\ UNCHANGED <<now, engine, pipeline>>
    /\ UNCHANGED rotVars
    /\ UNCHANGED cdVars

\* Mutation.savePortfolioItem, of one item of one collection
SavePortfolioItemOfCollection ==
    /\ pipeline = <<>>
    /\ \E portfolioItemId \in {<<"a">>}, internalItemId \in {Null, <<"b">>} :
           LET args == Args(PortfolioItemArgNames,
                            ("portfolioCollectionId" :> <<"a">>)
                            @@ ("portfolioItemId" :> portfolioItemId)
                            @@ ("internalItemId" :> internalItemId))
               req == savePortfolioItemRequest(args, Caller, now, engine)
           IN UnitResolver("savePortfolioItem", args, Caller, <<>>, <<>>, req,
                           "dynamoDbResultItem")
    /\ UNCHANGED <<now, engine, pipeline>>
    /\ UNCHANGED rotVars
    /\ UNCHANGED cdVars

\* time passes
Tick ==
    /\ now < MaxTime
    /\ now' = now + 1
    /\ UNCHANGED <<table, ctx, ddb, response, pipeline, engine>>
    /\ UNCHANGED rotVars
    /\ UNCHANGED cdVars

InitDates ==
    /\ RotationDeployed
    /\ PipelineDeployed
    /\ ApiDeployed
    /\ engine \in {e \in Engines : ~e.setAssignsNull}

NextDates ==
    \/ Tick
    \/ SaveAdditionalNotesForAnyWebsite
    \/ SavePartiallyDigitizedForAnyWebsite
    \/ SavePortfolioUser
    \/ SavePortfolioCollection
    \/ SavePortfolioItemOfCollection

SpecDates == InitDates /\ [][NextDates]_vars

(***************************************************************************)
(* The response templates, on whatever the data source may hand them.      *)
(***************************************************************************)
\* findPortfolioContentForUserFunction, response (the items are also stashed
\* as portfolioRecordsToDelete)
findPortfolioContentForUserResponse(c) ==
    RaiseOnError(c, Answer("items" :> Get(c.result, "items")))

\* deletePortfolioContentForUserFunction, response
deletePortfolioContentForUserResponse(c) ==
    RaiseOnError(c, Answer("recordsDeleted" :> Get(c.stash, "recordsCountToDelete")))

\* the #if / #elseif chain of listSupplementalDataRecords
Listed(item, id, websiteId) ==
    \/ id = <<>> /\ websiteId = <<>>
    \/ /\ id # <<>>
       /\ toUpper(Get(item, "id")) = id
       /\ websiteId = <<>> \/ toUpper(Get(item, "websiteId")) = websiteId
    \/ /\ websiteId # <<>>
       /\ toUpper(Get(item, "websiteId")) = websiteId
       /\ id = <<>>

\* Query.listSupplementalDataRecords, response
listSupplementalDataRecordsResponse(c) ==
    LET id == toUpper(Get(c.stash, "id"))
        websiteId == toUpper(Get(c.stash, "websiteId"))
        items == IF c.result = Null THEN <<>> ELSE c.result.items
    IN RaiseOnError(c,
           Answer(QueryResult(SelectSeq(items,
                      LAMBDA item : Listed(item, id, websiteId)))))

\* ItemMetadata.children, response: every item gets the website id stashed
itemMetadataChildrenResponse(c, eng) ==
    LET items == IF c.result = Null THEN <<>> ELSE c.result.items
        websiteId == Get(c.stash, "websiteId")
    IN Answer(QueryResult(
           [i \in 1..Len(items) |->
               IF websiteId = Null /\ ~eng.setAssignsNull THEN items[i]
               ELSE Put(items[i], "suppliedWebsiteId", websiteId)]))

\* Query.getExposedPortfolioCollection, response
getExposedPortfolioCollectionResponse(c) ==
    LET items == IF c.result = Null THEN <<>> ELSE c.result.items
    IN Answer(IF Len(items) > 0 THEN items[1] ELSE <<>>)

\* the resolvers of the data source whose response template is
\* MappingTemplate.dynamoDbResultItem()
ResultItemFields ==
    {"File.FileGroup", "ItemMetadata.defaultFile", "Mutation.addItemToWebsite",
     "Mutation.addItemToHarvest", "Mutation.removeItemFromWebsite",
     "Mutation.removeDefaultImageForWebsite", "Mutation.removePortfolioItem",
     "Mutation.saveFileLastProcessedDate", "Mutation.savePortfolioCollection",
     "Mutation.savePortfolioItem", "Mutation.savePortfolioUser", "Query.getFile",
     "Query.getFileGroup", "Query.getFileToProcessRecord",
     "Query.getPortfolioCollection", "Query.getPortfolioItem",
     "Query.getPortfolioUser", "Query.getWebsite"}

\* those whose response template is { "items": ..., "nextToken": ... }
ItemsFields ==
    {"FileGroup.files", "ItemMetadata.files", "PortfolioUser.portfolioCollections",
     "PortfolioCollection.portfolioItems", "Query.listFileGroups",
     "Query.listFileGroupsByStorageSystem", "Query.listFilesToProcess",
     "Query.listFileGroupsForS3", "Query.listItemsBySourceSystem",
     "Query.listItemsByWebsite", "Query.listPublicPortfolioCollections",
     "Query.listPublicHighlightedPortfolioCollections",
     "Query.listPublicFeaturedPortfolioCollections", "Query.listWebsites",
     "Website.websiteItems"}

\* what the data source may report: nothing, or an error; an error may come
\* with a result (the item a condition failed on, the part of a batch done)
Reported == {Null} \cup InvocationErrors

ItemResults == {Null, ItemA, ItemB}

QueryResults ==
    {Null, QueryResult(<<>>), QueryResult(<<ItemB>>),
     QueryResult(<<ItemA, ParentOverrideA>>)}

\* responseMappingTemplate of the functions and resolvers
ResponseTemplate(template, c, eng) ==
    CASE template = "getMergedItemRecordFunction" -> getMergedItemRecordResponse(c, eng)
      [] template = "expandSubjectTermsFunction" -> expandSubjectTermsResponse(c)
      [] template = "findPortfolioContentForUserFunction" ->
            findPortfolioContentForUserResponse(c)
      [] template = "deletePortfolioContentForUserFunction" ->
            deletePortfolioContentForUserResponse(c)
      [] template = "updateSupplementalDataRecordFunction" ->
            updateSupplementalDataRecordResponse(c)
      [] template = "Query.listSupplementalDataRecords" ->
            listSupplementalDataRecordsResponse(c)
      [] template = "ItemMetadata.children" -> itemMetadataChildrenResponse(c, eng)
      [] template = "Query.getExposedPortfolioCollection" ->
            getExposedPortfolioCollectionResponse(c)
      [] template \in {"dynamoDbResultItem", "ItemsAndNextToken"} ->
            ResolverResponse(template, c)

\* a response template is evaluated: handler is the field, or the function,
\* the template is of
Respond(handler, stash, result, error, template) ==
    /\ pipeline = <<>>
    /\ \E c \in {Context(handler, <<>>, Null, <<>>, stash, result, error)} :
         /\ ctx' = c
         /\ response' = ResponseTemplate(template, c, engine)
    /\ UNCHANGED <<table, ddb>>

GetMergedItemRecordResponse ==
    /\ \E error \in Reported, result \in QueryResults, websiteId \in {Null, <<"w">>} :
         Respond("getMergedItemRecordFunction",
                 "suppliedWebsiteId" :> websiteId, result, error,
                 "getMergedItemRecordFunction")
    /\ UNCHANGED <<now, engine, pipeline>>
    /\ UNCHANGED rotVars
    /\ UNCHANGED cdVars

ExpandSubjectTermsResponse ==
    /\ \E error \in Reported, itemRecord \in {<<>>, ItemA, ItemB},
          found \in {<<>>, <<SubjectTermU>>}, result \in BOOLEAN :
         Respond("expandSubjectTermsFunction",
                 expandSubjectTermsRequest(
                     Context("none", <<>>, Null, <<>>, "itemRecord" :> itemRecord,
                             Null, Null)).stash,
                 IF result THEN "data" :> List(found) ELSE Null,
                 error, "expandSubjectTermsFunction")
    /\ UNCHANGED <<now, engine, pipeline>>
    /\ UNCHANGED rotVars
    /\ UNCHANGED cdVars

FindPortfolioContentForUserResponse ==
    /\ \E error \in Reported, result \in QueryResults :
         Respond("findPortfolioContentForUserFunction", <<>>, result, error,
                 "findPortfolioContentForUserFunction")
    /\ UNCHANGED <<now, engine, pipeline>>
    /\ UNCHANGED rotVars
    /\ UNCHANGED cdVars

DeletePortfolioContentForUserResponse ==
    /\ \E error \in Reported, count \in {<<"0">>, <<"1">>},
          result \in {Null, "data" :> List(<<>>)} :
         Respond("deletePortfolioContentForUserFunction",
                 "recordsCountToDelete" :> count, result, error,
                 "deletePortfolioContentForUserFunction")
    /\ UNCHANGED <<now, engine, pipeline>>
    /\ UNCHANGED rotVars
    /\ UNCHANGED cdVars

UpdateSupplementalDataRecordResponse ==
    /\ \E error \in Reported, result \in ItemResults :
         Respond("updateSupplementalDataRecordFunction", <<>>, result, error,
                 "updateSupplementalDataRecordFunction")
    /\ UNCHANGED <<now, engine, pipeline>>
    /\ UNCHANGED rotVars
    /\ UNCHANGED cdVars

ListSupplementalDataRecordsResponse ==
    /\ \E error \in Reported, result \in QueryResults, id \in {<<>>, <<"a">>} :
         Respond("Query.listSupplementalDataRecords",
                 ("id" :> id) @@ ("websiteId" :> <<>>), result, error,
                 "Query.listSupplementalDataRecords")
    /\ UNCHANGED <<now, engine, pipeline>>
    /\ UNCHANGED rotVars
    /\ UNCHANGED cdVars

DynamoDbResultItemResponse ==
    /\ \E field \in ResultItemFields, error \in Reported, result \in ItemResults :
         Respond(field, <<>>, result, error, "dynamoDbResultItem")
    /\ UNCHANGED <<now, engine, pipeline>>
    /\ UNCHANGED rotVars
    /\ UNCHANGED cdVars

ItemsAndNextTokenResponse ==
    /\ \E field \in ItemsFields, error \in Reported, result \in QueryResults :
         Respond(field, <<>>, result, error, "ItemsAndNextToken")
    /\ UNCHANGED <<now, engine, pipeline>>
    /\ UNCHANGED rotVars
    /\ UNCHANGED cdVars

ItemMetadataChildrenResponse ==
    /\ \E error \in Reported, result \in QueryResults, websiteId \in {Null, <<"w">>} :
         Respond("ItemMetadata.children",
                 ("itemId" :> <<"a">>) @@ ("websiteId" :> websiteId),
                 result, error, "ItemMetadata.children")
    /\ UNCHANGED <<now, engine, pipeline>>
    /\ UNCHANGED rotVars
    /\ UNCHANGED cdVars

GetExposedPortfolioCollectionResponse ==
    /\ \E error \in Reported, result \in QueryResults :
         Respond("Query.getExposedPortfolioCollection", <<>>, result, error,
                 "Query.getExposedPortfolioCollection")
    /\ UNCHANGED <<now, engine, pipeline>>
    /\ UNCHANGED rotVars
    /\ UNCHANGED cdVars

InitResponse ==
    /\ RotationDeployed
    /\ PipelineDeployed
    /\ ApiDeployed
    /\ engine \in {e \in Engines : ~e.emptyIsFalse}

NextResponse ==
    \/ GetMergedItemRecordResponse
    \/ ExpandSubjectTermsResponse
    \/ FindPortfolioContentForUserResponse
    \/ DeletePortfolioContentForUserResponse
    \/ UpdateSupplementalDataRecordResponse
    \/ ListSupplementalDataRecordsResponse
    \/ DynamoDbResultItemResponse
    \/ ItemsAndNextTokenResponse
    \/ ItemMetadataChildrenResponse
    \/ GetExposedPortfolioCollectionResponse

SpecResponse == InitResponse /\ [][NextResponse]_vars

(***************************************************************************)
(* Claims about errors of the data source.                                 *)
(***************************************************************************)
\* the functions and the resolver whose response template begins with
\* #if($ctx.error) $util.error(...) #end
Checked ==
    {"getMergedItemRecordFunction", "expandSubjectTermsFunction",
     "findPortfolioContentForUserFunction", "deletePortfolioContentForUserFunction",
     "updateSupplementalDataRecordFunction", "Query.listSupplementalDataRecords"}

Forwarded ==
    /\ response.error # Null
    /\ response.error.message = ctx.error.message
    /\ response.error.type = ctx.error.type
    /\ response.data = Null

\* C4, as stated: whenever the data source reports an error, the response
\* template of the resolver or function raises a field error with the
\* error's message and type and returns no result.
C4_EveryTemplateForwardsError == ctx.error # Null => Forwarded

\* C4, amended: the five pipeline functions and listSupplementalDataRecords
\* raise a field error with the message and type of the data source's error
\* and return no result; the response template of every other resolver of
\* the data source raises nothing and evaluates to its result as if there
\* were no error.
C4_CheckedTemplatesForwardError ==
    ctx.error # Null =>
        IF ctx.field \in Checked THEN Forwarded ELSE response.error = Null

\* an error reported together with a result, to a template that checks
C4_Witness ==
    /\ ctx.field = "updateSupplementalDataRecordFunction"
    /\ ctx.error # Null
    /\ ctx.result # Null
    /\ Forwarded

(***************************************************************************)
(* Claims about the SupplementalData record.                               *)
(***************************************************************************)
SaveMutations ==
    {"saveAdditionalNotesForWebsite", "saveCopyrightForWebsite",
     "saveDefaultImageForWebsite", "savePartiallyDigitizedForWebsite"}

Occurrences(tok, tokens) ==
    Cardinality({i \in 1..Len(tokens) : tokens[i] = tok})

\* the stashed arguments the expression is built from
RemainingArgs ==
    copyAndRemoveAllKeys(ctx.stash.supplementalDataArgs, {"itemId", "expectedVersion"})

\* C2: in the request of updateSupplementalDataRecordFunction every stashed
\* argument other than itemId and expectedVersion that is null appears exactly
\* once in the REMOVE clause and not in SET, every other one appears exactly
\* once in the SET clause, as #k = :k with :k holding its value, and not in
\* REMOVE; and every placeholder of the expression is defined in
\* expressionNames or expressionValues.
C2_EveryArgumentOnceInSetOrRemove ==
    ctx.field \in SaveMutations /\ ddb.operation = "UpdateItem" =>
        LET u == ddb.update
            setTokens == Clause(u.expression, "SET")
            removeTokens == Clause(u.expression, "REMOVE")
            setActions == ActionsOf(u.expression, "SET")
        IN /\ \A k \in DOMAIN RemainingArgs :
                IF RemainingArgs[k] = Null
                THEN /\ Occurrences(NameRef(k), removeTokens) = 1
                     /\ Occurrences(NameRef(k), setTokens) = 0
                ELSE /\ Occurrences(NameRef(k), setTokens) = 1
                     /\ Occurrences(NameRef(k), removeTokens) = 0
                     /\ \E i \in 1..Len(setActions) :
                           setActions[i] = <<NameRef(k), Eq, ValueRef(k)>>
                     /\ ValueRef(k) \in DOMAIN u.expressionValues
                     /\ fromDynamoDB(u.expressionValues[ValueRef(k)]) = RemainingArgs[k]
           /\ \A i \in 1..Len(u.expression) :
                /\ u.expression[i][1] = "#" =>
                      /\ u.expression[i] \in DOMAIN u.expressionNames
                      /\ u.expressionNames[u.expression[i]] = u.expression[i][2]
                /\ u.expression[i][1] = ":" =>
                      u.expression[i] \in DOMAIN u.expressionValues

\* a request built from arguments of which one is null and one is not
C2_Witness ==
    /\ ctx.field = "saveCopyrightForWebsite"
    /\ ddb.operation = "UpdateItem"
    /\ RemainingArgs["copyrightStatement"] = Null
    /\ RemainingArgs["inCopyright"] = VTrue
    /\ HasClause(ddb.update.expression, "REMOVE")
    /\ HasClause(ddb.update.expression, "SET")

\* the data fields each mutation names
FieldsNamed(field) ==
    CASE field = "saveAdditionalNotesForWebsite" -> {"additionalNotes"}
      [] field = "saveCopyrightForWebsite" ->
            {"copyrightStatement", "copyrightStatus", "inCopyright"}
      [] field = "saveDefaultImageForWebsite" ->
            {"defaultFilePath", "objectFileGroupId"}
      [] field = "savePartiallyDigitizedForWebsite" -> {"partiallyDigitized"}

Bookkeeping ==
    {"TYPE", "id", "websiteId", "GSI1PK", "GSI1SK", "dateModifiedInDynamo",
     "dateAddedToDynamo"}

\* the value a mutation gives a field it names: its argument, where null or a
\* blank string give none; copyrightStatus follows inCopyright
ValueGiven(c, f) ==
    IF f = "copyrightStatus"
    THEN IF c.arguments.inCopyright = VTrue THEN <<"Copyright">>
         ELSE <<"not in copyright">>
    ELSE IF isNullOrBlank(c.arguments[f]) THEN Null ELSE c.arguments[f]

\* C3: a save...ForWebsite mutation is a partial update of the record of its
\* item and website: it changes no other record, in its record it changes only
\* the fields it names and the bookkeeping attributes, and each field it names
\* then holds the value it gave (none, when it gave none).  So every data
\* field holds the value of the latest mutation that named it.
C3_Step ==
    ctx'.field \in SaveMutations /\ ctx'.error = Null =>
        LET key == <<ddb'.key.PK, ddb'.key.SK>>
            old == IF key \in DOMAIN table THEN table[key] ELSE <<>>
            new == table'[key]
            own == FieldsNamed(ctx'.field)
        IN /\ DOMAIN table' = DOMAIN table \cup {key}
           /\ \A k \in DOMAIN table : k # key => table'[k] = table[k]
           /\ \A f \in (DOMAIN old \cup DOMAIN new)
                         \ (own \cup Bookkeeping \cup {"PK", "SK"}) :
                f \in DOMAIN old /\ f \in DOMAIN new /\ new[f] = old[f]
           /\ \A f \in own :
                IF ValueGiven(ctx', f) = Null THEN f \notin DOMAIN new
                ELSE f \in DOMAIN new /\ new[f] = ValueGiven(ctx', f)

C3_SaveIsPartialUpdate == [][C3_Step]_vars

\* a record that holds fields two different mutations gave, the second of
\* them just performed
C3_Witness ==
    /\ ctx.field = "saveDefaultImageForWebsite"
    /\ ctx.error = Null
    /\ \E key \in DOMAIN table :
          /\ key = <<ddb.key.PK, ddb.key.SK>>
          /\ "additionalNotes" \in DOMAIN table[key]
          /\ table[key]["additionalNotes"] = <<"y">>
          /\ "defaultFilePath" \in DOMAIN table[key]
          /\ "inCopyright" \in DOMAIN table[key]

(***************************************************************************)
(* Claims about the merged item record.                                    *)
(***************************************************************************)
\* getMergedItemRecordFunction has just returned
MergedReturned == pipeline = <<"expandSubjectTermsFunction">>

\* the records of a type among the records the query returned
OfType(type) ==
    {i \in 1..Len(ctx.result.items) : Get(ctx.result.items[i], "TYPE") = type}

\* the website id the function uses
WebsiteUsed == toUpper(defaultIfNullOrBlank(Get(ctx.stash, "suppliedWebsiteId"), <<>>))

\* the SupplementalData records for all websites or for the website used
Given ==
    {i \in OfType(<<"SupplementalData">>) :
        toUpper(defaultIfNullOrBlank(Get(ctx.result.items[i], "websiteId"), <<>>))
            \in {WebsiteUsed, <<"A", "L", "L">>}}

NeverCopied ==
    {"PK", "SK", "TYPE", "GSI1PK", "GSI1SK", "GSI2PK", "GSI2SK",
     "dateAddedToDynamo", "dateModifiedInDynamo"}

GivenTo(f) ==
    {i \in Given : f \in DOMAIN ctx.result.items[i] \ NeverCopied}

\* C9: the record getMergedItemRecordFunction returns holds (a) the parentId
\* of a ParentOverride record, (b, c) every non-key field of each
\* SupplementalData record whose websiteId is ALL or, compared without case,
\* the website id the function uses, with the value one of these records has
\* for it, and otherwise the fields of the Item record; it holds nothing
\* else: no field of a SupplementalData record of another website, and no key
\* attribute (PK, SK, TYPE, GSI1PK, GSI1SK, GSI2PK, GSI2SK, dateAddedToDynamo,
\* dateModifiedInDynamo) other than the Item record's own.
C9_MergedRecord ==
    MergedReturned =>
        LET items == ctx.result.items
            rec == ctx.stash.itemRecord
        IN /\ \A i \in Given : \A f \in DOMAIN items[i] \ NeverCopied :
                /\ f \in DOMAIN rec
                /\ \E j \in GivenTo(f) : rec[f] = items[j][f]
           /\ \A i \in OfType(<<"ParentOverride">>) :
                GivenTo("parentId") = {} =>
                    "parentId" \in DOMAIN rec /\ rec["parentId"] = items[i]["parentId"]
           /\ \A i \in OfType(<<"Item">>) : \A f \in DOMAIN items[i] :
                /\ f \in DOMAIN rec
                /\ (/\ GivenTo(f) = {}
                    /\ f # "suppliedWebsiteId"
                    /\ ~(f = "parentId" /\ OfType(<<"ParentOverride">>) # {}))
                   => rec[f] = items[i][f]
           /\ \A f \in DOMAIN rec :
                \/ f = "suppliedWebsiteId" /\ rec[f] = WebsiteUsed
                \/ f = "parentId" /\ OfType(<<"ParentOverride">>) # {}
                \/ GivenTo(f) # {}
                \/ \E i \in OfType(<<"Item">>) :
                     f \in DOMAIN items[i] /\ rec[f] = items[i][f]

\* an item with a ParentOverride record and SupplementalData records for all
\* websites, for the website asked for (in another case) and for a third one
C9_Witness ==
    /\ MergedReturned
    /\ OfType(<<"Item">>) # {}
    /\ OfType(<<"ParentOverride">>) # {}
    /\ Cardinality(Given) = 2
    /\ Cardinality(OfType(<<"SupplementalData">>)) = 3
    /\ Get(ctx.stash, "websiteId") = <<"W">>
    /\ ctx.stash.itemRecord["additionalNotes"] = <<"y">>
    /\ ctx.stash.itemRecord["parentId"] = <<"n">>
    /\ ctx.stash.itemRecord["inCopyright"] = VTrue

\* the first value of a list that is not null or blank
RECURSIVE FirstNonBlank(_)
FirstNonBlank(values) ==
    IF values = <<>> THEN Null
    ELSE IF ~isNullOrBlank(Head(values)) THEN Head(values)
    ELSE FirstNonBlank(Tail(values))

\* C10: the key getMergedItemRecordFunction queries is ITEM# and the
\* normalized first non-blank of stash.itemId, source.itemId, source.id and
\* source.itemMetadataId; the website id it uses is stash.websiteId, or
\* source.suppliedWebsiteId when that is blank; so for getItem and
\* showItemByWebsite the key is ITEM#normalize(the id argument).
C10_IdAndWebsiteIdByPriority ==
    MergedReturned =>
        /\ ddb.query.pk = <<"ITEM#">> \o Normalize(FirstNonBlank(
               <<Get(ctx.stash, "itemId"), Get(ctx.source, "itemId"),
                 Get(ctx.source, "id"), Get(ctx.source, "itemMetadataId")>>))
        /\ WebsiteUsed = toUpper(defaultIfNullOrBlank(FirstNonBlank(
               <<Get(ctx.stash, "websiteId"),
                 Get(ctx.source, "suppliedWebsiteId")>>), <<>>))
        /\ ctx.field = "getItem" =>
               ddb.query.pk = <<"ITEM#">> \o Normalize(ctx.arguments["id"])
        /\ ctx.field = "showItemByWebsite" =>
               ddb.query.pk = <<"ITEM#">> \o Normalize(ctx.arguments["itemId"])

(***************************************************************************)
(* Claims about the keys.                                                  *)
(***************************************************************************)
\* the sort key of a portfolio item as the claim has it
PortfolioItemKey(c) ==
    Key(<<"PORTFOLIO">>,
        <<"USER#">> \o toUpper(c.identity.claims.netid) \o <<"#">>
        \o Normalize(c.arguments.portfolioCollectionId) \o <<"#">>
        \o Normalize(c.arguments.portfolioItemId))

\* C1, as stated: every resolver that builds a key from an id argument uses
\* its prefix followed by normalize(id), where normalize maps null or blank to
\* the empty string, upper-cases and removes spaces; normalize is idempotent,
\* so ids that differ only in letter case or in spaces address the same key.
\* (savePortfolioItem builds its key from the argument when the argument is
\* not blank.)
C1_KeyIsPrefixPlusNormalizedId ==
    /\ \A id \in IdArgs : Normalize(Normalize(id)) = Normalize(id)
    /\ ctx.field \in {"addItemToWebsite", "removeItemFromWebsite"} =>
          ddb.key = Key(<<"WEBSITE#">> \o Normalize(ctx.arguments.websiteId),
                        <<"ITEM#">> \o Normalize(ctx.arguments.itemId))
    /\ ctx.field = "getWebsite" =>
          ddb.key = Key(<<"WEBSITE">>, <<"WEBSITE#">> \o Normalize(ctx.arguments.id))
    /\ ctx.field = "listItemsByWebsite" =>
          ddb.query.pk = <<"WEBSITE#">> \o Normalize(ctx.arguments.id)
    /\ ctx.field \in {"getPortfolioItem", "removePortfolioItem"} =>
          ddb.key = PortfolioItemKey(ctx)
    /\ ctx.field = "savePortfolioItem"
          /\ ~isNullOrBlank(ctx.arguments.portfolioItemId) =>
          ddb.key = PortfolioItemKey(ctx)

(***************************************************************************)
(* Claims about supplemental data saved and read back.                     *)
(***************************************************************************)
\* the SupplementalData records the table has for an item
SupplementsOf(id) ==
    {k \in DOMAIN table :
        /\ k[1] = <<"ITEM#">> \o Normalize(id)
        /\ Get(table[k], "TYPE") = <<"SupplementalData">>}

\* the item and the website a merged read was asked for
RequestedItem ==
    IF ctx.field = "getItem" THEN ctx.arguments.id ELSE ctx.arguments.itemId

RequestedWebsite == toUpper(defaultIfNullOrBlank(ctx.arguments.websiteId, <<>>))

\* a merged read that getMergedItemRecordFunction has just answered
MergedRead ==
    /\ MergedReturned
    /\ ctx.field \in {"getItem", "showItemByWebsite"}
    /\ ~isNullOrBlank(RequestedItem)

\* the merged record has every field of the stored record, with the value of
\* this record or of another SupplementalData record of the item
IncludedIn(k, rec) ==
    \A f \in DOMAIN table[k] \ NeverCopied :
        \E j \in SupplementsOf(RequestedItem) :
            /\ f \in DOMAIN table[j]
            /\ Get(rec, f) = table[j][f]

\* the record as a save without a website id leaves it
SavedForAllWebsites(k) == table[k]["websiteId"] = <<"A", "l", "l">>

\* a save...ForWebsite mutation without a website id has just succeeded
SavedWithoutWebsite ==
    /\ ctx.field \in SaveMutations
    /\ ddb.operation = "UpdateItem"
    /\ response.error = Null
    /\ isNullOrBlank(ctx.arguments.websiteId)

DatedMutations ==
    SaveMutations \cup {"savePortfolioUser", "savePortfolioCollection",
                        "savePortfolioItem"}

\* the key of the last request
RequestKey(request) == <<request.key.PK, request.key.SK>>

\* one of these mutations writes its record at the time now: the record is
\* modified now, and added now unless it was there before; no other record
\* changes
C12_Step ==
    (now' = now /\ ctx'.field \in DatedMutations /\ ctx'.error = Null) =>
        LET k == RequestKey(ddb')
        IN /\ k \in DOMAIN table'
           /\ table'[k]["dateModifiedInDynamo"] = <<"T", ToString(now)>>
           /\ table'[k]["dateAddedToDynamo"] =
                 IF k \in DOMAIN table THEN table[k]["dateAddedToDynamo"]
                 ELSE <<"T", ToString(now)>>
           /\ \A j \in DOMAIN table' \ {k} : j \in DOMAIN table /\ table'[j] = table[j]

\* C12: every save...ForWebsite, savePortfolioUser, savePortfolioCollection
\* and savePortfolioItem mutation sets its record's dateModifiedInDynamo to
\* its own time and sets dateAddedToDynamo to its own time only when it
\* inserts the record, leaving it as it is otherwise: so after any sequence
\* of these mutations on one key dateAddedToDynamo is the time of the first
\* and dateModifiedInDynamo the time of the last.
C12_AddedOnceModifiedEachTime == [][C12_Step]_vars

\* a record saved first at time 0 and last at time MaxTime
C12_Witness ==
    /\ now = MaxTime
    /\ ctx.field \in DatedMutations
    /\ ctx.error = Null
    /\ ddb.operation = "UpdateItem"
    /\ RequestKey(ddb) \in DOMAIN table
    /\ table[RequestKey(ddb)]["dateAddedToDynamo"] = <<"T", "0">>
    /\ table[RequestKey(ddb)]["dateModifiedInDynamo"] = <<"T", ToString(MaxTime)>>


(***************************************************************************)
(* The subjects of an item expanded: getItem on tables whose Item has      *)
(* subjects with and without a uri, of subject terms stored and not.       *)
(***************************************************************************)
\* subjects: without a uri, with a blank one, with the uri of SubjectTermU
\* in two spellings, and with a uri of no subject term
SomeSubjects ==
    {"term" :> <<"x">>, Subject(<<"x">>, <<" ">>), Subject(<<"y">>, <<"u">>),
     Subject(<<"y">>, <<"U">>), Subject(<<"w">>, <<"w">>)}

RECURSIVE ListsUpTo(_, _)
ListsUpTo(S, n) ==
    IF n = 0 THEN {<<>>}
    ELSE LET shorter == ListsUpTo(S, n - 1)
         IN shorter \cup {Append(l, x) : l \in shorter, x \in S}

SubjectTables ==
    {TablePut(base, ItemRecord(<<"a">>, "subjects" :> List(subjects))) :
        base \in {<<>>, TablePut(<<>>, SubjectTermU)},
        subjects \in ListsUpTo(SomeSubjects, MaxSubjects)}
    \cup {TablePut(TablePut(<<>>, SubjectTermU), ItemB)}

InitSubjects ==
    /\ RotationDeployed
    /\ PipelineDeployed
    /\ ApiIdle
    /\ table \in SubjectTables
    /\ engine \in {e \in Engines : ~e.emptyIsFalse}

NextSubjects ==
    \/ GetItem
    \/ GetMergedItemRecordFunction
    \/ ExpandSubjectTermsFunction

SpecSubjects == InitSubjects /\ [][NextSubjects]_vars

(***************************************************************************)
(* The portfolio of a user removed: removePortfolioUser and                *)
(* removePortfolioCollection, pipelines of findPortfolioContentForUser-    *)
(* Function and deletePortfolioContentForUserFunction.                     *)
(***************************************************************************)
\* a second user, whose netid begins with the netid of the first
OtherCaller == [claims |-> [netid |-> <<"n", "n">>]]

Callers == {Caller, OtherCaller}

\* Mutation.removePortfolioUser, request: the stash
removePortfolioUserStash(identity) ==
    ("identity" :> identity)
    @@ ("portfolioUserId" :> identity.claims.netid)
    @@ ("portfolioCollectionId" :> <<>>)

\* Mutation.removePortfolioCollection, request: the stash
removePortfolioCollectionStash(args, identity) ==
    ("identity" :> identity)
    @@ ("portfolioUserId" :> identity.claims.netid)
    @@ ("portfolioCollectionId" :> Normalize(args.portfolioCollectionId))

\* findPortfolioContentForUserFunction, request
findPortfolioContentForUserRequest(c) ==
    LET portfolioUserId == Normalize(Get(c.stash, "portfolioUserId"))
        portfolioCollectionId == Normalize(Get(c.stash, "portfolioCollectionId"))
        pk == <<"PORTFOLIO">>
        sk == IF portfolioCollectionId = <<>>
              THEN <<"USER#">> \o portfolioUserId
              ELSE <<"USER#">> \o portfolioUserId \o <<"#">> \o portfolioCollectionId
    IN [request |-> [operation |-> "Query",
                     query |-> [pk |-> pk, beginsWith |-> sk]],
        stash |-> Put(Put(c.stash, "findPortfolioContentForUserFunctionPk", pk),
                      "findPortfolioContentForUserFunctionSk", sk)]

\* the key that stands in where there is nothing to delete
NoKeyToFind == Key(<<"NoKeyToFind">>, <<"YieldEmptyResultSet">>)

\* deletePortfolioContentForUserFunction, request that deletes nothing
deleteNothingRequest(c) ==
    [request |-> [operation |-> "BatchDeleteItem", keys |-> <<NoKeyToFind>>],
     stash |-> Put(Put(Put(c.stash, "recordsCountToDelete", <<"0">>),
                       "queryAttempted", <<"0">>),
                   "deletePortfolioContentForUserFunctionKeys", <<NoKeyToFind>>)]

\* deletePortfolioContentForUserFunction, request
deletePortfolioContentForUserRequest(c) ==
    LET portfolioRecordsToDelete ==
            IF Get(c.stash, "portfolioRecordsToDelete") = Null THEN <<>>
            ELSE Get(c.stash, "portfolioRecordsToDelete")
        found == [i \in 1..Len(portfolioRecordsToDelete) |->
                     Key(portfolioRecordsToDelete[i].PK, portfolioRecordsToDelete[i].SK)]
        recordsCountToDelete == <<ToString(Len(portfolioRecordsToDelete))>>
        keys == IF found # <<>> THEN found ELSE <<NoKeyToFind>>
    IN [request |-> [operation |-> "BatchDeleteItem", keys |-> keys],
        stash |-> Put(Put(Put(c.stash, "recordsCountToDelete", recordsCountToDelete),
                          "queryAttempted",
                          IF found # <<>> THEN <<"1">> ELSE <<"0">>),
                      "deletePortfolioContentForUserFunctionKeys", keys)]

RemovalPipeline ==
    <<"findPortfolioContentForUserFunction", "deletePortfolioContentForUserFunction">>

\* one of the two pipeline resolvers starts
BeginRemoval(field, arguments, identity, stash) ==
    /\ pipeline = <<>>
    /\ pipeline' = RemovalPipeline
    /\ ctx' = Context(field, arguments, identity, <<>>, stash, Null, Null)
    /\ ddb' = NoRequest
    /\ response' = Answer(Null)
    /\ UNCHANGED table

\* Mutation.removePortfolioUser
RemovePortfolioUser ==
    /\ \E identity \in Callers :
         BeginRemoval("removePortfolioUser", <<>>, identity,
                      removePortfolioUserStash(identity))
    /\ UNCHANGED <<now, engine>>
    /\ UNCHANGED rotVars
    /\ UNCHANGED cdVars

RemovedCollectionIds == {Null, <<"a">>, <<"a", " ", "a">>}

\* Mutation.removePortfolioCollection
RemovePortfolioCollection ==
    /\ \E identity \in Callers, portfolioCollectionId \in RemovedCollectionIds :
         LET args == Args({"portfolioCollectionId"},
                          "portfolioCollectionId" :> portfolioCollectionId)
         IN BeginRemoval("removePortfolioCollection", args, identity,
                         removePortfolioCollectionStash(args, identity))
    /\ UNCHANGED <<now, engine>>
    /\ UNCHANGED rotVars
    /\ UNCHANGED cdVars

FindPortfolioContentForUserFunction ==
    /\ pipeline # <<>>
    /\ Head(pipeline) = "findPortfolioContentForUserFunction"
    /\ \E built \in {findPortfolioContentForUserRequest(ctx)} :
         \E did \in {Execute(built.request, table)} :
           \E c \in {[ctx EXCEPT !.stash = built.stash, !.result = did.result,
                                 !.error = did.error]} :
             \E out \in {findPortfolioContentForUserResponse(c)} :
               Continue(built.request, did,
                        IF out.error # Null THEN c
                        ELSE [c EXCEPT !.stash = Put(@, "portfolioRecordsToDelete",
                                                     c.result.items)],
                        out)
    /\ UNCHANGED <<now, engine>>
    /\ UNCHANGED rotVars
    /\ UNCHANGED cdVars

DeletePortfolioContentForUserFunction ==
    /\ pipeline # <<>>
    /\ Head(pipeline) = "deletePortfolioContentForUserFunction"
    /\ \E built \in {deletePortfolioContentForUserRequest(ctx)} :
         \E did \in {Execute(built.request, table)} :
           \E c \in {[ctx EXCEPT !.stash = built.stash, !.result = did.result,
                                 !.error = did.error]} :
             Continue(built.request, did, c, deletePortfolioContentForUserResponse(c))
    /\ UNCHANGED <<now, engine>>
    /\ UNCHANGED rotVars
    /\ UNCHANGED cdVars

\* the table after a request
After(t, req) == Execute(req, t).table

\* what the two users may have saved: the user, collections and items of
\* the first, the user and a collection of the second
PortfolioSaves(eng) ==
    LET User(identity) ==
            savePortfolioUserRequest(Args(PortfolioUserArgNames, <<>>), identity, 0)
        Collection(identity, id) ==
            savePortfolioCollectionRequest(
                Args(PortfolioCollectionArgNames, "portfolioCollectionId" :> id),
                identity, 0)
        Item(identity, collection, id) ==
            savePortfolioItemRequest(
                Args(PortfolioItemArgNames,
                     ("portfolioCollectionId" :> collection)
                     @@ ("portfolioItemId" :> id)),
                identity, 0, eng)
    IN <<User(Caller), Collection(Caller, <<"a">>), Collection(Caller, <<"a", "a">>),
         Item(Caller, <<"a">>, <<"a">>), Item(Caller, <<"a">>, <<"b">>),
         Item(Caller, <<"a", "a">>, <<"a">>),
         User(OtherCaller), Collection(OtherCaller, <<"a">>)>>

\* the table after some of the saves
RECURSIVE SavedAll(_, _, _)
SavedAll(t, saves, chosen) ==
    IF saves = <<>> THEN t
    ELSE SavedAll(IF Len(saves) \in chosen THEN After(t, Head(saves)) ELSE t,
                  Tail(saves), chosen)

PortfolioTables(eng) ==
    {SavedAll(<<>>, PortfolioSaves(eng), chosen) :
        chosen \in SUBSET (1..Len(PortfolioSaves(eng)))}

InitRemove ==
    /\ RotationDeployed
    /\ PipelineDeployed
    /\ ApiIdle
    /\ engine \in {e \in Engines : ~e.setAssignsNull /\ ~e.emptyIsFalse}
    /\ table \in PortfolioTables(engine)

NextRemove ==
    \/ RemovePortfolioUser
    \/ RemovePortfolioCollection
    \/ FindPortfolioContentForUserFunction
    \/ DeletePortfolioContentForUserFunction

SpecRemove == InitRemove /\ [][NextRemove]_vars

(***************************************************************************)
(* The deployment pipeline of elasticsearch at work.                       *)
(***************************************************************************)
InitPipeline ==
    /\ RotationDeployed
    /\ PipelineDeployed
    /\ ApiIdle
    /\ table = <<>>
    /\ engine \in Engines

NextPipeline ==
    \/ StartPipelineExecution
    \/ StartAction
    \/ ActionSucceeds
    \/ ActionFails
    \/ PutApprovalResult
    \/ RetryStageExecution
    \/ EnterNextStage
    \/ Supersede

SpecPipeline == InitPipeline /\ [][NextPipeline]_vars

\* what an execution has done with an action
Began(e, action) == action.actionName \in executions[e].started
                        \cup executions[e].succeeded \cup executions[e].failed

Succeeded(e, action) == action.actionName \in executions[e].succeeded

\* C13: in every execution of the deployment pipeline the stages run in the
\* order Source, Test, Production (an action of a stage has begun only when
\* every action of the stages before it has succeeded); the manual approval
\* is the last action of the Test stage and has begun only when the
\* deployment to test of that execution has succeeded; and the deployment to
\* production has begun only when the approval of that execution was granted
C13_ApprovalGatesProduction ==
    /\ [i \in 1..Len(Stages) |-> Stages[i].stageName] = <<"Source", "Test", "Production">>
    /\ approvalAction \in Stages[2].actions
    /\ \A a \in Stages[2].actions \ {approvalAction} : a.runOrder < approvalAction.runOrder
    /\ \A e \in 1..MaxExecutions :
          /\ \A i \in 1..Len(Stages) : \A a \in Stages[i].actions :
                Began(e, a) =>
                    \A h \in 1..(i - 1) : ActionNames(h) \subseteq executions[e].succeeded
          /\ Began(e, approvalAction) => Succeeded(e, deployTest)
          /\ Began(e, deployProd) => Succeeded(e, approvalAction)

\* an execution was approved after a retry of its Test stage and deploys to
\* production, while a later execution is in the pipeline
C13_Witness ==
    \E e \in 1..MaxExecutions, d \in 1..MaxExecutions :
        /\ e # d
        /\ Began(e, deployProd)
        /\ executions[e].retries > 0
        /\ executions[d].status # "None"

(***************************************************************************)
(* The removal of a portfolio, or of a collection of it.                   *)
(***************************************************************************)
\* the stored portfolio records of a user, and those of a collection of theirs
PortfolioOf(t, identity) ==
    {k \in DOMAIN t : /\ k[1] = <<"PORTFOLIO">>
                      /\ Get(t[k], "portfolioUserId") = identity.claims.netid}

CollectionOf(t, identity, portfolioCollectionId) ==
    {k \in PortfolioOf(t, identity) :
        Get(t[k], "portfolioCollectionId") = Normalize(portfolioCollectionId)}

\* the mutation has run its two functions and answers without an error
Removed(field) ==
    /\ ctx.field = field
    /\ pipeline = <<>>
    /\ ddb.operation = "BatchDeleteItem"
    /\ response.error = Null

\* C14: when removePortfolioUser has completed without error, no portfolio
\* record of the caller is stored (user, collections, items); when
\* removePortfolioCollection(c) has completed without error, neither the
\* caller's collection c nor an item of it is stored
C14_NothingRemains ==
    /\ Removed("removePortfolioUser") => PortfolioOf(table, ctx.identity) = {}
    /\ Removed("removePortfolioCollection") =>
           CollectionOf(table, ctx.identity, ctx.arguments.portfolioCollectionId) = {}

\* the same, where the Query found all there was to find
C14_NothingRemainsOfOnePage ==
    Get(ctx.stash, "portfolioRecordsToDelete") # Null
        /\ Len(Get(ctx.stash, "portfolioRecordsToDelete")) < MaxPage
    => C14_NothingRemains

RemovalFields == {"removePortfolioUser", "removePortfolioCollection"}

\* a step deletes records only for a removal, only records of its caller
\* and, for removePortfolioCollection(c), only collection c and its items
C15_Step ==
    \A k \in DOMAIN table \ DOMAIN table' :
        /\ ctx'.field \in RemovalFields
        /\ k \in PortfolioOf(table, ctx'.identity)
        /\ ctx'.field = "removePortfolioCollection" =>
              k \in CollectionOf(table, ctx'.identity,
                                 ctx'.arguments.portfolioCollectionId)

\* C15: what findPortfolioContentForUserFunction finds, and the removal then
\* deletes, is content of the caller only: removePortfolioUser by U deletes
\* only records of U, and removePortfolioCollection(c) by U only the
\* collection c of U and its items
C15_RemovesOnlyOwnContent == [][C15_Step]_vars

\* the keys of a sequence of records, or of keys
KeysOf(records) == {<<records[i].PK, records[i].SK>> : i \in 1..Len(records)}

\* the step of deletePortfolioContentForUserFunction: one BatchDeleteItem of
\* the keys of the records the stash holds, or of the key that stands in
\* where it holds none; the records of these keys are gone, no others; and
\* the answer counts the records the stash held
C17_Step ==
    (pipeline = <<"deletePortfolioContentForUserFunction">> /\ pipeline' = <<>>) =>
        LET found == Get(ctx.stash, "portfolioRecordsToDelete")
        IN /\ ddb'.operation = "BatchDeleteItem"
           /\ Len(ddb'.keys) = IF found = <<>> THEN 1 ELSE Len(found)
           /\ KeysOf(ddb'.keys) =
                 IF found = <<>>
                 THEN {<<<<"NoKeyToFind">>, <<"YieldEmptyResultSet">>>>}
                 ELSE KeysOf(found)
           /\ DOMAIN table' = DOMAIN table \ KeysOf(found)
           /\ response' = Answer("recordsDeleted" :> <<ToString(Len(found))>>)

\* C17: deletePortfolioContentForUserFunction issues one BatchDeleteItem whose
\* keys are exactly the (PK, SK) of the records findPortfolioContentForUser-
\* Function stashed and reports their number as recordsDeleted; where none
\* was found it deletes the key (NoKeyToFind, YieldEmptyResultSet) and
\* reports 0
C17_DeletesWhatWasFound == [][C17_Step]_vars

\* three records were found and deleted
C17_Witness ==
    /\ pipeline = <<>>
    /\ ddb.operation = "BatchDeleteItem"
    /\ Len(ddb.keys) = 3
    /\ Len(Get(ctx.stash, "portfolioRecordsToDelete")) = 3
    /\ KeysOf(ddb.keys) \cap DOMAIN table = {}
    /\ response = Answer("recordsDeleted" :> <<"3">>)

\* nothing was found
C17_NothingFound ==
    /\ pipeline = <<>>
    /\ ddb.operation = "BatchDeleteItem"
    /\ ddb.keys = <<NoKeyToFind>>
    /\ response = Answer("recordsDeleted" :> <<"0">>)

(***************************************************************************)
(* The subjects expandSubjectTermsFunction returns.                        *)
(***************************************************************************)
\* expandSubjectTermsFunction has answered without an error
Expanded ==
    /\ pipeline = <<>>
    /\ ddb.operation = "BatchGetItem"
    /\ response.error = Null

\* the subjects it was given and those it returns
SubjectsBefore == Elements(Get(ctx.stash, "subjectsBefore"))

SubjectsAfter == Elements(Get(response.data, "subjects"))

HasUri(subject) == ~isNullOrBlank(Get(subject, "uri"))

SubjectTermKey(subject) ==
    <<<<"SUBJECTTERM">>, <<"URI#">> \o toUpper(Get(subject, "uri"))>>

\* what a subject is to become: the subject term of its uri without the
\* attributes of the table, where there is one; else the subject itself
ExpandedSubject(subject) ==
    IF HasUri(subject) /\ SubjectTermKey(subject) \in DOMAIN table
    THEN Without(table[SubjectTermKey(subject)], KeyAttributes)
    ELSE subject

\* C16: expandSubjectTermsFunction returns, for every subject with a uri of
\* which a SUBJECTTERM record is stored, that record expanded, and every
\* other subject (without uri, or of a uri not found) unchanged; it returns
\* nothing else, drops no subject, and returns the subjects it was given
\* where none has a uri
C16_SubjectsExpandedNoneDropped ==
    Expanded =>
        /\ \A i \in 1..Len(SubjectsBefore) : \E j \in 1..Len(SubjectsAfter) :
              SubjectsAfter[j] = ExpandedSubject(SubjectsBefore[i])
        /\ \A j \in 1..Len(SubjectsAfter) : \E i \in 1..Len(SubjectsBefore) :
              SubjectsAfter[j] = ExpandedSubject(SubjectsBefore[i])
        /\ (\A i \in 1..Len(SubjectsBefore) : ~HasUri(SubjectsBefore[i]))
              => SubjectsAfter = SubjectsBefore
====
